---- MODULE Spec2Model ----
(***************************************************************************)
(* Output (future cell) and its combinators Apply and All, the dependency  *)
(* aggregator addDependency / expandDependencies, the marshaler and the    *)
(* unmarshaler of property values, and the constructor registries of the   *)
(* Go SDK.                                                                 *)
(***************************************************************************)
EXTENDS Integers, Sequences, FiniteSets, TLC

(***************************************************************************)
(* Bounds of the model.                                                    *)
(***************************************************************************)
\* Source Outputs resolve with an int in 1..MaxVal.
MaxVal == 2
\* Number of concurrent awaiting contexts.
NumAwaiters == 2
\* expandDependencies is given lists of at most MaxRoots resources.
MaxRoots == 2
\* Marshaled slices have at most MaxLen elements.
MaxLen == 2
\* At most MaxRegs constructors are registered before a reference is resolved.
MaxRegs == 3

(***************************************************************************)
(* Values carried by Outputs.  An interface{} value is a tuple of ints:    *)
(* an int v is <<v>>, nil is << >>, the []interface{} of All is the        *)
(* concatenation of its inputs' values.                                    *)
(***************************************************************************)
Nil == << >>
NoErr == "nil"
Errors == {"boom", "bang"}
CallbackErr == "unexpected value"
DepRes == {"r1", "r2"}
Values == {<<v>> : v \in 1..MaxVal}
\* The value that is the Output other (a pointer to it), not an int.
OutputRef == <<0>>

\* The Outputs of the scenario: out, out2 are settled by producers, other is
\* the Output an Apply callback creates and returns, app = out.ApplyT(f),
\* app2 = app.ApplyT(g), all = All(out, out2, app).
Sources == {"out", "out2"}
Produced == Sources \cup {"other"}
ApplyCells == {"app", "app2"}
Cells == Produced \cup ApplyCells \cup {"all"}
ApplyInput == [app |-> "out", app2 |-> "app"]
AllInputs == <<"out", "out2", "app">>
Awaiters == 1..NumAwaiters

VARIABLES cell, pc, fk, calls, got, aw, fatal, tree, roots, expanded, reexpanded,
          input, options, marshaled, wire, dest, unmarshaled, registry,
          loaded, mu, procs

futureVars == <<cell, pc, fk, calls, got, aw, fatal>>
depVars == <<tree, roots, expanded, reexpanded>>
marshalVars == <<input, options, marshaled>>
registryVars == <<loaded, mu, procs>>
wireVars == <<wire, dest, unmarshaled, registry, registryVars>>
rpcVars == <<depVars, marshalVars, wireVars>>
vars == <<futureVars, depVars, marshalVars, wireVars>>

(***************************************************************************)
(* The future cell.                                                        *)
(***************************************************************************)
Absent == [st |-> "absent", value |-> Nil, known |-> FALSE, secret |-> FALSE,
           deps |-> {}, err |-> NoErr]

Unsettled == [st |-> "pending", value |-> Nil, known |-> FALSE, secret |-> FALSE,
              deps |-> {}, err |-> NoErr]

Resolved(v, k, s, d) == [st |-> "resolved", value |-> v, known |-> k, secret |-> s,
                         deps |-> d, err |-> NoErr]

Rejected(e) == [st |-> "rejected", value |-> Nil, known |-> FALSE, secret |-> FALSE,
                deps |-> {}, err |-> e]

IsSettled(c) == cell[c].st \in {"resolved", "rejected"}

\* What await() returns for a settled cell: (value, known, secret, deps, error).
await(c) == <<cell[c].value, cell[c].known, cell[c].secret, cell[c].deps, cell[c].err>>

\* A settle that overwrites whatever the cell holds (mutant of fulfill).
fulfillOverwrite(cells, c, rec) == [cells EXCEPT ![c] = rec]

\* resolve / reject: the first one fixes the tuple, a later one changes nothing.
fulfill(cells, c, rec) ==
    IF cells[c].st = "pending" THEN [cells EXCEPT ![c] = rec] ELSE cells

\* The tuples a producer may resolve a cell with: an unknown Output carries no value.
ResolveArgs ==
    {Resolved(v, TRUE, s, d) : v \in Values, s \in BOOLEAN, d \in SUBSET DepRes}
    \cup {Resolved(Nil, FALSE, s, d) : s \in BOOLEAN, d \in SUBSET DepRes}

RejectArgs == {Rejected(e) : e \in Errors}

(***************************************************************************)
(* Producers: ResolveOutput / RejectOutput from any execution context.     *)
(* Settling a cell that is already settled is a fatal assertion: the       *)
(* program aborts (fatal) and the cell is left as it is.                   *)
(***************************************************************************)
ResolveOutput(c, rec) ==
    /\ ~fatal
    /\ cell[c].st # "absent"
    /\ cell' = fulfill(cell, c, rec)
    /\ fatal' = (cell[c].st # "pending")
    /\ UNCHANGED <<pc, fk, calls, got, aw, rpcVars>>

RejectOutput(c, rec) ==
    /\ ~fatal
    /\ cell[c].st # "absent"
    /\ cell' = fulfill(cell, c, rec)
    /\ fatal' = (cell[c].st # "pending")
    /\ UNCHANGED <<pc, fk, calls, got, aw, rpcVars>>

(***************************************************************************)
(* Apply.                                                                  *)
(***************************************************************************)
\* The callbacks handed to Apply: inc is func(v int) { return v + 1 }.
Callbacks == {"inc", "dbl"}
CallbackKinds == {"plain", "error", "output"}

F(fn, v) == IF fn = "inc" THEN <<v[1] + 1>> ELSE <<2 * v[1]>>

\* o.ApplyT(f): creates the result Output, unresolved, and starts the task
\* that awaits o.
ApplyT(n, fn, kind) ==
    /\ ~fatal
    /\ pc[n] = "idle"
    /\ cell[ApplyInput[n]].st # "absent"
    /\ kind = "output" => n = "app"
    /\ cell' = [cell EXCEPT ![n] = Unsettled]
    /\ pc' = [pc EXCEPT ![n] = "await"]
    /\ fk' = [fk EXCEPT ![n] = [fn |-> fn, kind |-> kind]]
    /\ UNCHANGED <<calls, got, aw, fatal, rpcVars>>

\* The value the callback returns: the Output other (OutputRef) or F's result.
CallbackReturn(f, v) == IF f.kind = "output" THEN OutputRef ELSE F(f.fn, v)

\* An Apply that forgets the callback and passes o's value on (mutant of ApplyResult).
ApplyResultNoCall(o, f) ==
    IF o.st = "rejected" THEN Rejected(o.err)
    ELSE IF ~o.known THEN Resolved(Nil, FALSE, o.secret, o.deps)
    ELSE IF f.kind = "error" THEN Rejected(CallbackErr)
    ELSE Resolved(o.value, TRUE, o.secret, o.deps)

\* An Apply that drops secret and deps of an unknown o (mutant of ApplyResult).
ApplyResultDropMeta(o, f) ==
    IF o.st = "rejected" THEN Rejected(o.err)
    ELSE IF ~o.known THEN Resolved(Nil, FALSE, FALSE, {})
    ELSE IF f.kind = "error" THEN Rejected(CallbackErr)
    ELSE Resolved(CallbackReturn(f, o.value), TRUE, o.secret, o.deps)

\* An Apply that resolves unknown instead of rejecting (mutant of ApplyResult).
ApplyResultSwallowErr(o, f) ==
    IF o.st = "rejected" THEN Resolved(Nil, FALSE, FALSE, {})
    ELSE IF ~o.known THEN Resolved(Nil, FALSE, o.secret, o.deps)
    ELSE IF f.kind = "error" THEN Rejected(CallbackErr)
    ELSE Resolved(CallbackReturn(f, o.value), TRUE, o.secret, o.deps)

\* What the Apply task settles the result with once o is settled and the
\* callback (if it ran) returned a plain value or an error.
ApplyResult(o, f) ==
    IF o.st = "rejected" THEN Rejected(o.err)
    ELSE IF ~o.known THEN Resolved(Nil, FALSE, o.secret, o.deps)
    ELSE IF f.kind = "error" THEN Rejected(CallbackErr)
    ELSE Resolved(CallbackReturn(f, o.value), TRUE, o.secret, o.deps)

\* The Apply task after its await of o returned.
ApplyRun(n) ==
    LET o == cell[ApplyInput[n]]
        invoked == o.st = "resolved" /\ o.known
    IN  /\ ~fatal
        /\ pc[n] = "await"
        /\ IsSettled(ApplyInput[n])
        /\ calls' = IF invoked THEN [calls EXCEPT ![n] = Append(@, o.value)] ELSE calls
        /\ IF invoked /\ fk[n].kind # "error" /\ CallbackReturn(fk[n], o.value) = OutputRef
             THEN \* the callback made a new Output and returned it: await it
                  /\ cell' = [cell EXCEPT !["other"] = Unsettled]
                  /\ pc' = [pc EXCEPT ![n] = "flatten"]
             ELSE /\ cell' = fulfill(cell, n, ApplyResult(o, fk[n]))
                  /\ pc' = [pc EXCEPT ![n] = "done"]
        /\ UNCHANGED <<fk, got, aw, fatal, rpcVars>>

\* A flattening that takes the inner Output's secret and deps alone (mutant
\* of FlattenResult).
FlattenResultInnerOnly(o, inner) ==
    IF inner.st = "rejected" THEN Rejected(inner.err)
    ELSE Resolved(inner.value, inner.known, inner.secret, inner.deps)

\* Flattening: what the result settles with once the inner Output settled.
FlattenResult(o, inner) ==
    IF inner.st = "rejected" THEN Rejected(inner.err)
    ELSE Resolved(inner.value, inner.known, o.secret \/ inner.secret,
                  o.deps \cup inner.deps)

\* A flattening that waits for its own result instead of the inner Output
\* (mutant of ApplyFlatten).
ApplyFlattenSelfWait(n) ==
    /\ ~fatal
    /\ pc[n] = "flatten"
    /\ IsSettled(n)
    /\ cell' = fulfill(cell, n, FlattenResult(cell[ApplyInput[n]], cell["other"]))
    /\ pc' = [pc EXCEPT ![n] = "done"]
    /\ UNCHANGED <<fk, calls, got, aw, fatal, rpcVars>>

ApplyFlatten(n) ==
    /\ ~fatal
    /\ pc[n] = "flatten"
    /\ IsSettled("other")
    /\ cell' = fulfill(cell, n, FlattenResult(cell[ApplyInput[n]], cell["other"]))
    /\ pc' = [pc EXCEPT ![n] = "done"]
    /\ UNCHANGED <<fk, calls, got, aw, fatal, rpcVars>>

(***************************************************************************)
(* All.                                                                    *)
(***************************************************************************)
AllIdx == 1..Len(AllInputs)

RECURSIVE JoinValue(_, _)
JoinValue(cells, i) ==
    IF i = 0 THEN << >> ELSE JoinValue(cells, i - 1) \o cells[AllInputs[i]].value

\* A join that is secret only if every input is (mutant of JoinResult).
JoinResultSecretAnd(cells) ==
    LET known == \A i \in AllIdx : cells[AllInputs[i]].known
    IN  Resolved(IF known THEN JoinValue(cells, Len(AllInputs)) ELSE Nil,
                 known,
                 \A i \in AllIdx : cells[AllInputs[i]].secret,
                 UNION {cells[AllInputs[i]].deps : i \in AllIdx})

JoinResult(cells) ==
    LET known == \A i \in AllIdx : cells[AllInputs[i]].known
    IN  Resolved(IF known THEN JoinValue(cells, Len(AllInputs)) ELSE Nil,
                 known,
                 \E i \in AllIdx : cells[AllInputs[i]].secret,
                 UNION {cells[AllInputs[i]].deps : i \in AllIdx})

All ==
    /\ ~fatal
    /\ pc["all"] = "idle"
    /\ \A i \in AllIdx : cell[AllInputs[i]].st # "absent"
    /\ cell' = [cell EXCEPT !["all"] = Unsettled]
    /\ pc' = [pc EXCEPT !["all"] = "await"]
    /\ UNCHANGED <<fk, calls, got, aw, fatal, rpcVars>>

\* A join task that takes a rejected input for a resolved one (mutant of AllAwait).
AllAwaitSkipErr(i) ==
    /\ ~fatal
    /\ pc["all"] = "await"
    /\ i \notin got
    /\ IsSettled(AllInputs[i])
    /\ IF got \cup {i} = AllIdx
         THEN /\ cell' = fulfill(cell, "all", JoinResult(cell))
              /\ pc' = [pc EXCEPT !["all"] = "done"]
              /\ got' = got \cup {i}
         ELSE /\ got' = got \cup {i}
              /\ UNCHANGED <<cell, pc>>
    /\ UNCHANGED <<fk, calls, aw, fatal, rpcVars>>

\* The join task takes the result of one more input; the first error it
\* meets rejects the join, the last input resolves it.
AllAwait(i) ==
    /\ ~fatal
    /\ pc["all"] = "await"
    /\ i \notin got
    /\ IsSettled(AllInputs[i])
    /\ IF cell[AllInputs[i]].st = "rejected"
         THEN /\ cell' = fulfill(cell, "all", Rejected(cell[AllInputs[i]].err))
              /\ pc' = [pc EXCEPT !["all"] = "done"]
              /\ got' = got
         ELSE IF got \cup {i} = AllIdx
         THEN /\ cell' = fulfill(cell, "all", JoinResult(cell))
              /\ pc' = [pc EXCEPT !["all"] = "done"]
              /\ got' = got \cup {i}
         ELSE /\ got' = got \cup {i}
              /\ UNCHANGED <<cell, pc>>
    /\ UNCHANGED <<fk, calls, aw, fatal, rpcVars>>

(***************************************************************************)
(* Awaiters.                                                               *)
(***************************************************************************)
Idle == [st |-> "idle", on |-> "none", ret |-> <<Nil, FALSE, FALSE, {}, NoErr>>]

\* await(): the calling context suspends on the cell ...
Await(a, c) ==
    /\ ~fatal
    /\ aw[a].st # "waiting"
    /\ cell[c].st # "absent"
    /\ aw' = [aw EXCEPT ![a] = [st |-> "waiting", on |-> c, ret |-> Idle.ret]]
    /\ UNCHANGED <<cell, pc, fk, calls, got, fatal, rpcVars>>

\* ... and returns the tuple once the cell is settled.
AwaitReturn(a) ==
    /\ ~fatal
    /\ aw[a].st = "waiting"
    /\ IsSettled(aw[a].on)
    /\ aw' = [aw EXCEPT ![a] = [st |-> "returned", on |-> @.on, ret |-> await(@.on)]]
    /\ UNCHANGED <<cell, pc, fk, calls, got, fatal, rpcVars>>

(***************************************************************************)
(* The dependency aggregator.                                              *)
(***************************************************************************)
Kinds == {"Custom", "LocalComponent", "RemoteComponent", "DependencyOnly", "Rehydrated"}

\* The URN of each resource: a globally unique string.
urnOf == [R |-> "urn:R", X |-> "urn:X", Y |-> "urn:Y", Z |-> "urn:Z",
          C |-> "urn:C", A |-> "urn:A", D |-> "urn:D", B |-> "urn:B", E |-> "urn:E",
          Comp1 |-> "urn:Comp1", Comp2 |-> "urn:Comp2", Comp3 |-> "urn:Comp3",
          Cust1 |-> "urn:Cust1", Cust2 |-> "urn:Cust2", Cust3 |-> "urn:Cust3",
          Cust4 |-> "urn:Cust4", Cust5 |-> "urn:Cust5", Remote1 |-> "urn:Remote1",
          Nameless |-> ""]

\* An ownership tree: the resources, the ordered children and the variant of
\* each, and how the URN and ID Outputs of each resource settle: "ok" (known,
\* not secret), "unknown", "secret" or "err" (rejected).
ResTree(children, kind, urnSt, idSt) ==
    [nodes |-> DOMAIN children, children |-> children, kind |-> kind,
     urnErr |-> {n \in DOMAIN children : urnSt[n] = "err"},
     urnSt |-> urnSt, idSt |-> idSt]

\* An ownership tree whose URNs and IDs are known and not secret, but for the
\* resources of urnErr, whose URN Output is rejected.
Tree(children, kind, urnErr) ==
    ResTree(children, kind,
            [n \in DOMAIN children |-> IF n \in urnErr THEN "err" ELSE "ok"],
            [n \in DOMAIN children |-> "ok"])

\* Comp1[Cust1, Comp2[Cust2[Cust4], Cust3], Remote1[Comp3[Cust5]]]
DocTree ==
    Tree([Comp1 |-> <<"Cust1", "Comp2", "Remote1">>, Cust1 |-> << >>,
          Comp2 |-> <<"Cust2", "Cust3">>, Cust2 |-> <<"Cust4">>, Cust3 |-> << >>,
          Cust4 |-> << >>, Remote1 |-> <<"Comp3">>, Comp3 |-> <<"Cust5">>,
          Cust5 |-> << >>],
         [Comp1 |-> "LocalComponent", Cust1 |-> "Custom", Comp2 |-> "LocalComponent",
          Cust2 |-> "Custom", Cust3 |-> "Custom", Cust4 |-> "Custom",
          Remote1 |-> "RemoteComponent", Comp3 |-> "LocalComponent", Cust5 |-> "Custom"],
         {})

\* C[A, D[B, E]] with every resource Custom or LocalComponent.
LocalShape == [C |-> <<"A", "D">>, A |-> << >>, D |-> <<"B", "E">>, B |-> << >>, E |-> << >>]
LocalTrees ==
    {Tree(LocalShape, k, {}) : k \in [DOMAIN LocalShape -> {"Custom", "LocalComponent"}]}

\* R[X, Y[Z]] with every mix of variants, and at most one URN that fails.
MixedShape == [R |-> <<"X", "Y">>, X |-> << >>, Y |-> <<"Z">>, Z |-> << >>]
MixedTrees ==
    {Tree(MixedShape, k, e) : k \in [DOMAIN MixedShape -> Kinds],
                              e \in {{}} \cup {{n} : n \in DOMAIN MixedShape}}

Trees == {DocTree} \cup LocalTrees \cup MixedTrees

NoTree == Tree([n \in {} |-> << >>], [n \in {} |-> "Custom"], {})

RootLists(t) == UNION {[1..k -> t.nodes] : k \in 0..MaxRoots}

EmptyDeps == [u \in {} |-> "none"]
Put(deps, u, r) == [x \in DOMAIN deps \cup {u} |-> IF x = u THEN r ELSE deps[x]]

URNErr == "urn rejected"

\* A keepDependency that holds for every component (mutant of keepDependency).
keepDependencyAlways(t, res) == TRUE

\* keepDependency() returns true for remote component resources, dependency
\* resources, and rehydrated component resources.
keepDependency(t, res) ==
    t.kind[res] \in {"RemoteComponent", "DependencyOnly", "Rehydrated"}

\* The URN of a resource whose URN Output resolved unknown: the zero value.
UnknownURN == ""

\* res.URN().awaitURN(ctx): (urn, known, secret, err).
awaitURN(t, res) ==
    [urn |-> IF t.urnSt[res] \in {"unknown", "err"} THEN UnknownURN ELSE urnOf[res],
     known |-> t.urnSt[res] \in {"ok", "secret"},
     secret |-> t.urnSt[res] = "secret",
     err |-> IF t.urnSt[res] = "err" THEN URNErr ELSE NoErr]

\* urn, _, _, err := res.URN().awaitURN(ctx) and deps[urn] = res.
addURN(t, deps, res) ==
    IF awaitURN(t, res).err # NoErr THEN [deps |-> deps, err |-> awaitURN(t, res).err]
    ELSE [deps |-> Put(deps, awaitURN(t, res).urn, res), err |-> NoErr]

RECURSIVE addDependency(_, _, _, _)
RECURSIVE addChildren(_, _, _, _, _)

\* for _, child := range res.getChildren() { addDependency(ctx, deps, child, from) }
addChildren(t, deps, cs, i, from) ==
    IF i > Len(cs) THEN [deps |-> deps, err |-> NoErr]
    ELSE LET r == addDependency(t, deps, cs[i], from)
         IN  IF r.err # NoErr THEN r ELSE addChildren(t, r.deps, cs, i + 1, from)

addDependency(t, deps, res, from) ==
    IF t.kind[res] # "Custom"
    THEN IF res = from THEN [deps |-> deps, err |-> NoErr]
         ELSE LET r == addChildren(t, deps, t.children[res], 1, from)
              IN  IF r.err # NoErr THEN r
                  ELSE IF ~keepDependency(t, res) THEN r
                  ELSE addURN(t, r.deps, res)
    ELSE addURN(t, deps, res)

\* No resource: the from argument of expandDependencies.
NoResource == "nil"

RECURSIVE expandFrom(_, _, _, _)
expandFrom(t, set, rs, i) ==
    IF i > Len(rs) THEN [deps |-> set, err |-> NoErr]
    ELSE LET r == addDependency(t, set, rs[i], NoResource)
         IN  IF r.err # NoErr THEN [deps |-> EmptyDeps, err |-> r.err]
             ELSE expandFrom(t, r.deps, rs, i + 1)

\* An aggregation that skips the first resource handed to it (mutant of
\* expandDependencies).
expandDependenciesSkipFirst(t, rs) == expandFrom(t, EmptyDeps, rs, 2)

\* expandDependencies expands the given slice of Resources into a set of URNs.
expandDependencies(t, rs) == expandFrom(t, EmptyDeps, rs, 1)

NotCalled == [st |-> "none", deps |-> EmptyDeps, err |-> NoErr]

ExpandDependencies ==
    /\ expanded.st = "none"
    /\ expanded' = [st |-> "returned"] @@ expandDependencies(tree, roots)
    /\ UNCHANGED <<tree, roots, reexpanded, futureVars, marshalVars, wireVars>>

\* The orders in which a caller that ranges over a map can list its values.
Orderings(S) ==
    {s \in [1..Cardinality(S) -> S] : \A i, j \in DOMAIN s : i # j => s[i] # s[j]}

\* The resources of a map returned by expandDependencies.
Resources(deps) == {deps[u] : u \in DOMAIN deps}

\* expandDependencies applied to the resources of the map that an earlier
\* expandDependencies returned, in any order.
ReExpandDependencies ==
    /\ expanded.st = "returned"
    /\ reexpanded.st = "none"
    /\ \E rs \in Orderings(Resources(expanded.deps)) :
          reexpanded' = [st |-> "returned"] @@ expandDependencies(tree, rs)
    /\ UNCHANGED <<tree, roots, expanded, futureVars, marshalVars, wireVars>>

(***************************************************************************)
(* Marshaling: Go values to wire PropertyValues.                           *)
(***************************************************************************)
\* Go values.  A nil is an untyped nil interface, a nil pointer or an Input
\* that is a nil pointer; slices and maps carry their own nil flag.
GoNil(of) == [k |-> "nil", of |-> of]
GoString(s) == [k |-> "string", s |-> s]
GoFunc == [k |-> "func"]
GoResource(r) == [k |-> "resource", r |-> r]
GoPtr(v) == [k |-> "ptr", v |-> v]
GoSlice(elems) == [k |-> "slice", isNil |-> FALSE, elems |-> elems]
NilSlice == [k |-> "slice", isNil |-> TRUE, elems |-> << >>]
\* A map lists its entries in the order in which this run ranges over them.
Entry(key, v) == [key |-> key, v |-> v]
GoMap(keyKind, entries) ==
    [k |-> "map", keyKind |-> keyKind, isNil |-> FALSE, entries |-> entries]
NilMap == [k |-> "map", keyKind |-> "string", isNil |-> TRUE, entries |-> << >>]
\* A struct lists its fields, each with the name of its pulumi tag ("" for a
\* field without one).
Field(tag, v) == [tag |-> tag, v |-> v]
GoStruct(fields) == [k |-> "struct", fields |-> fields]
GoAsset(invalid) == [k |-> "asset", invalid |-> invalid]
GoArchive(invalid, assets) == [k |-> "archive", invalid |-> invalid, assets |-> assets]

\* What awaiting an Output returns: (value, known, secret, deps, err).
Awaited(v, known, secret, deps) ==
    [v |-> v, known |-> known, secret |-> secret, deps |-> deps, err |-> NoErr]
AwaitFailed(e) ==
    [v |-> GoNil("interface"), known |-> FALSE, secret |-> FALSE, deps |-> << >>, err |-> e]

\* An Output of Go type typ whose await returns res; conv tells how its
\* element type relates to the destination type: "same" (identical, or the
\* destination is interface{}), "convertible" (ToOutput converts it) or
\* "mismatch" (neither).
GoOutput(typ, conv, res) == [k |-> "output", typ |-> typ, conv |-> conv, res |-> res]

\* Wire values (resource.PropertyValue).
NullProperty == [k |-> "null"]
NewStringProperty(s) == [k |-> "string", s |-> s]
NewArrayProperty(arr) == [k |-> "array", elems |-> arr]
NewObjectProperty(obj) == [k |-> "object", obj |-> obj]
NewAssetProperty(kind) == [k |-> "asset", kind |-> kind]
NewArchiveProperty(kind, assets) == [k |-> "archive", kind |-> kind, assets |-> assets]
NewOutputProperty(element, known, secret, dependencies) ==
    [k |-> "output", element |-> element, known |-> known, secret |-> secret,
     dependencies |-> dependencies]
MakeSecret(element) == [k |-> "secret", element |-> element]
MakeComputed == [k |-> "computed"]
ResourceReference(urn, id, hasID, version) ==
    [k |-> "resource", urn |-> urn, id |-> id, hasID |-> hasID, version |-> version]
MakeCustomResourceReference(urn, id, version) == ResourceReference(urn, id, TRUE, version)
MakeComponentResourceReference(urn, version) == ResourceReference(urn, "", FALSE, version)

IsNull(v) == v.k = "null"

\* The ID of each custom resource, and the ID of one whose ID Output resolved
\* unknown: the zero value.
idOf == [R |-> "id-R", X |-> "id-X", Y |-> "id-Y", Z |-> "id-Z"]
UnknownID == ""
IDErr == "id rejected"

\* custom.ID().awaitID(ctx): (id, known, secret, err).
awaitID(t, res) ==
    [id |-> IF t.idSt[res] \in {"unknown", "err"} THEN UnknownID ELSE idOf[res],
     known |-> t.idSt[res] \in {"ok", "secret"},
     secret |-> t.idSt[res] = "secret",
     err |-> IF t.idSt[res] = "err" THEN IDErr ELSE NoErr]

\* The order of sort.Slice(urns, urns[i] < urns[j]) on the URNs of the model.
urnRank == [u \in {UnknownURN, "urn:R", "urn:X", "urn:Y", "urn:Z"} |->
              CASE u = UnknownURN -> 0 [] u = "urn:R" -> 1 [] u = "urn:X" -> 2
                [] u = "urn:Y" -> 3 [] u = "urn:Z" -> 4]

\* The URNs of S in descending order (mutant of SortedURNs).
DescendingURNs(S) ==
    CHOOSE s \in [1..Cardinality(S) -> S] :
        \A i, j \in DOMAIN s : i < j => urnRank[s[i]] > urnRank[s[j]]

\* The URNs of S as the sorted list.
SortedURNs(S) ==
    CHOOSE s \in [1..Cardinality(S) -> S] :
        \A i, j \in DOMAIN s : i < j => urnRank[s[i]] < urnRank[s[j]]

\* marshalOptions; a nil *marshalOptions behaves as both flags false.
NoOptions == [ErrorOnOutput |-> FALSE, ExcludeResourceRefsFromDeps |-> FALSE]
MarshalOptions == [ErrorOnOutput : BOOLEAN, ExcludeResourceRefsFromDeps : BOOLEAN]

\* Errors of the marshaler; a failed contract.Assertf is a panic.
cannotAwaitFmt(typ) ==
    "cannot marshal Output value of type " \o typ \o
    "; please use Apply to access the Output's value"
cannotMarshalInput(typ) == "cannot marshal an input of type " \o typ
MarshalErr ==
    [invalidAsset |-> "invalid asset",
     invalidArchive |-> "invalid archive",
     mapKeys |-> "expected map keys to be strings",
     unrecognized |-> "unrecognized input property type",
     notStructOrMap |-> "cannot marshal Input that is not a struct or map"]
Panic ==
    [urnUnknown |-> "panic: URN must be known",
     urnSecret |-> "panic: URN must not be secret",
     idSecret |-> "panic: CustomResource must not have a secret ID",
     mapKeys |-> "panic: expected map with string keys"]
Panics == {Panic[p] : p \in DOMAIN Panic}
awaitingInputProperty(pname, err) ==
    IF err \in Panics THEN err
    ELSE "awaiting input property \"" \o pname \o "\": " \o err

\* What a marshal call returns, (value, deps, err), and the Outputs it awaited.
Marshaled(v, deps, err, awaited) ==
    [v |-> v, deps |-> deps, err |-> err, awaited |-> awaited]
Failed(err, awaited) == Marshaled(NullProperty, << >>, err, awaited)

\* v.(Input): an Output, or an Input that is a pointer with a nil backing value.
IsInput(v) == v.k = "output" \/ (v.k = "nil" /\ v.of = "input")

Keys(entries) == [i \in DOMAIN entries |-> entries[i].key]
Vals(entries) == [i \in DOMAIN entries |-> entries[i].v]

\* obj[key] = mv for every marshaled value that is not Null.
ObjectOf(keys, vals) ==
    [key \in {keys[i] : i \in {j \in DOMAIN keys : ~IsNull(vals[j])}} |->
        vals[CHOOSE i \in DOMAIN keys : keys[i] = key /\ ~IsNull(vals[i])]]

\* assets[k] = aa.V for every entry.
AssetsOf(keys, vals) ==
    [key \in {keys[i] : i \in DOMAIN keys} |->
        vals[CHOOSE i \in DOMAIN keys : keys[i] = key]]

\* case Resource: the reference of a resource and, unless excluded, the
\* resource as a dependency.
marshalResource(t, r, opts) ==
    LET deps == IF ~opts.ExcludeResourceRefsFromDeps THEN <<r>> ELSE << >>
        u == awaitURN(t, r)
        i == awaitID(t, r)
    IN  IF u.err # NoErr THEN Failed(u.err, {})
        ELSE IF ~u.known THEN Failed(Panic.urnUnknown, {})
        ELSE IF u.secret THEN Failed(Panic.urnSecret, {})
        ELSE IF t.kind[r] = "Custom"
             THEN IF i.err # NoErr THEN Failed(i.err, {})
                  ELSE IF i.secret THEN Failed(Panic.idSecret, {})
                  ELSE Marshaled(MakeCustomResourceReference(u.urn, i.id, ""), deps, NoErr, {})
        ELSE Marshaled(MakeComponentResourceReference(u.urn, ""), deps, NoErr, {})

RECURSIVE marshalInputOptionsImpl(_, _, _, _)
RECURSIVE marshalSeq(_, _, _, _, _)
RECURSIVE marshalOutput(_, _, _)

\* The loops over array elements, map values, struct fields and archive
\* assets: marshalInputOptions of each value in turn, the values and the
\* dependencies appended, the first error returned.
marshalSeq(t, vs, opts, i, acc) ==
    IF i > Len(vs) THEN acc
    ELSE LET r == marshalInputOptionsImpl(t, vs[i], opts, FALSE)
         IN  IF r.err # NoErr
             THEN [vals |-> << >>, deps |-> << >>, err |-> r.err,
                   awaited |-> acc.awaited \cup r.awaited]
             ELSE marshalSeq(t, vs, opts, i + 1,
                             [vals |-> Append(acc.vals, r.v), deps |-> acc.deps \o r.deps,
                              err |-> NoErr, awaited |-> acc.awaited \cup r.awaited])

NoneMarshaled == [vals |-> << >>, deps |-> << >>, err |-> NoErr, awaited |-> {}]

\* No Output is inlined (mutant of inlineElement).
inlineElementNever(a) == FALSE

\* A secret Output is inlined like a plain one (mutant of inlineElement).
inlineElementSecret(a) == a.known /\ Len(a.deps) = 0

\* if known { ... if !secret && len(outputDeps) == 0 { return element, nil, nil } }
inlineElement(a) == a.known /\ ~a.secret /\ Len(a.deps) = 0

\* ErrorOnOutput is never honoured (mutant of errorOnOutput).
errorOnOutputNever(opts) == FALSE

\* if opts != nil && opts.ErrorOnOutput
errorOnOutput(opts) == opts.ErrorOnOutput

\* if input, ok := v.(Input); ok { ... if output, ok := input.(Output); ok {
marshalOutput(t, o, opts) ==
    IF o.conv = "mismatch" THEN Failed(cannotMarshalInput(o.typ), {})
    ELSE IF errorOnOutput(opts) THEN Failed(cannotAwaitFmt(o.typ), {})
    ELSE LET a == o.res
             el == IF a.known THEN marshalInputOptionsImpl(t, a.v, opts, TRUE)
                   ELSE Marshaled(NullProperty, << >>, NoErr, {})
             depSet == expandDependencies(t, a.deps)
             awaited == {o} \cup el.awaited
         IN  IF a.err # NoErr THEN Failed(a.err, {o})
             ELSE IF el.err # NoErr THEN Failed(el.err, awaited)
             ELSE IF inlineElement(a) THEN Marshaled(el.v, << >>, NoErr, awaited)
             ELSE IF depSet.err # NoErr THEN Failed(depSet.err, awaited)
             ELSE Marshaled(NewOutputProperty(el.v, a.known, a.secret,
                                              SortedURNs(DOMAIN depSet.deps)),
                            a.deps, NoErr, awaited)

\* tag := destField.Tag.Get("pulumi"); if tag == "" { continue }
TaggedFields(fields) == SelectSeq(fields, LAMBDA f : f.tag # "")

Tags(fields) == [i \in DOMAIN fields |-> fields[i].tag]

\* if !fv.IsNull() { obj[tag] = fv }; deps = append(deps, d...)
objectProperty(keys, r) ==
    IF r.err # NoErr THEN Failed(r.err, r.awaited)
    ELSE Marshaled(NewObjectProperty(ObjectOf(keys, r.vals)), r.deps, NoErr, r.awaited)

marshalInputOptionsImpl(t, v, opts, skipInputCheck) ==
    IF ~skipInputCheck /\ IsInput(v)
    THEN IF v.k = "nil" THEN Marshaled(NullProperty, << >>, NoErr, {})
         ELSE marshalOutput(t, v, opts)
    ELSE CASE v.k = "nil" -> Marshaled(NullProperty, << >>, NoErr, {})
           [] v.k = "asset" ->
                IF v.invalid THEN Failed(MarshalErr.invalidAsset, {})
                ELSE Marshaled(NewAssetProperty("text"), << >>, NoErr, {})
           [] v.k = "archive" ->
                IF v.invalid THEN Failed(MarshalErr.invalidArchive, {})
                ELSE LET r == marshalSeq(t, Vals(v.assets), opts, 1, NoneMarshaled)
                     IN  IF r.err # NoErr THEN Failed(r.err, r.awaited)
                         ELSE Marshaled(NewArchiveProperty("assets",
                                                           AssetsOf(Keys(v.assets), r.vals)),
                                        << >>, NoErr, r.awaited)
           [] v.k = "resource" -> marshalResource(t, v.r, opts)
           [] v.k = "ptr" -> marshalInputOptionsImpl(t, v.v, opts, FALSE)
           [] v.k = "string" -> Marshaled(NewStringProperty(v.s), << >>, NoErr, {})
           [] v.k = "slice" ->
                IF v.isNil THEN Marshaled(NullProperty, << >>, NoErr, {})
                ELSE LET r == marshalSeq(t, v.elems, opts, 1, NoneMarshaled)
                     IN  IF r.err # NoErr THEN Failed(r.err, r.awaited)
                         ELSE Marshaled(NewArrayProperty(r.vals), r.deps, NoErr, r.awaited)
           [] v.k = "map" ->
                IF v.keyKind # "string" THEN Failed(MarshalErr.mapKeys, {})
                ELSE IF v.isNil THEN Marshaled(NullProperty, << >>, NoErr, {})
                ELSE objectProperty(Keys(v.entries),
                                   marshalSeq(t, Vals(v.entries), opts, 1, NoneMarshaled))
           [] v.k = "struct" ->
                objectProperty(Tags(TaggedFields(v.fields)),
                              marshalSeq(t, Vals(TaggedFields(v.fields)), opts, 1,
                                         NoneMarshaled))
           [] OTHER -> Failed(MarshalErr.unrecognized, {})

\* marshalInputOptions(v, destType, opts)
marshalInputOptions(t, v, opts) == marshalInputOptionsImpl(t, v, opts, FALSE)

\* The property is always recorded (mutant of keepProperty).
keepPropertyAlways(v, allDeps) == TRUE

\* No property is recorded (mutant of keepProperty).
keepPropertyNever(v, allDeps) == FALSE

\* if !v.IsNull() || len(allDeps) > 0 { pmap[pname] = v; pdeps[pname] = urns }
keepProperty(v, allDeps) == ~IsNull(v) \/ DOMAIN allDeps # {}

NoProperties == [pmap |-> << >>, pdeps |-> << >>, urns |-> {}, err |-> NoErr, awaited |-> {}]
PropertiesFailed(err, awaited) ==
    [pmap |-> << >>, pdeps |-> << >>, urns |-> {}, err |-> err, awaited |-> awaited]

\* marshalProperty for each tagged field or map entry in turn.
RECURSIVE marshalProperties(_, _, _, _, _, _)
marshalProperties(t, names, pvs, opts, i, acc) ==
    IF i > Len(pvs) THEN acc
    ELSE LET r == marshalInputOptions(t, pvs[i], opts)
             allDeps == expandDependencies(t, r.deps)
             awaited == acc.awaited \cup r.awaited
         IN  IF r.err # NoErr
             THEN PropertiesFailed(awaitingInputProperty(names[i], r.err), awaited)
             ELSE IF allDeps.err # NoErr THEN PropertiesFailed(allDeps.err, awaited)
             ELSE marshalProperties(t, names, pvs, opts, i + 1,
                    [pmap |-> IF keepProperty(r.v, allDeps.deps)
                              THEN Put(acc.pmap, names[i], r.v) ELSE acc.pmap,
                     pdeps |-> IF keepProperty(r.v, allDeps.deps)
                               THEN Put(acc.pdeps, names[i], DOMAIN allDeps.deps)
                               ELSE acc.pdeps,
                     urns |-> acc.urns \cup DOMAIN allDeps.deps,
                     err |-> NoErr,
                     awaited |-> awaited])

\* marshalInputs turns resource property inputs into a map suitable for
\* marshaling: (pmap, pdeps, urns, err).
marshalInputsOptions(t, props, opts) ==
    LET pv == IF props.k = "ptr" THEN props.v ELSE props
    IN  CASE props.k = "nil" -> NoProperties
          [] pv.k = "struct" ->
               marshalProperties(t, Tags(TaggedFields(pv.fields)),
                                 Vals(TaggedFields(pv.fields)), opts, 1, NoProperties)
          [] pv.k = "map" ->
               IF pv.keyKind # "string" THEN PropertiesFailed(Panic.mapKeys, {})
               ELSE marshalProperties(t, Keys(pv.entries), Vals(pv.entries), opts, 1,
                                      NoProperties)
          [] OTHER -> PropertiesFailed(MarshalErr.notStructOrMap, {})

\* The resources of the marshaled inputs: the component R owning the custom
\* resource X.  All URNs and IDs are known and not secret, or one of them is
\* not.
MarshalShape == [R |-> <<"X">>, X |-> << >>]
MarshalTrees ==
    LET AllOK == [R |-> "ok", X |-> "ok"]
        Deviations == {"unknown", "secret", "err"}
        ResStates ==
            {<<AllOK, AllOK>>}
                \cup {<<[AllOK EXCEPT ![n] = d], AllOK>> :
                        n \in {"R", "X"}, d \in Deviations}
                \cup {<<AllOK, [AllOK EXCEPT !["X"] = d]>> : d \in Deviations}
    IN  {ResTree(MarshalShape, [R |-> kR, X |-> "Custom"], st[1], st[2]) :
            kR \in {"LocalComponent", "RemoteComponent"}, st \in ResStates}

\* The inputs handed to the marshaler.
Str == GoString("x")
OutputTypeOf(a) ==
    CASE a.v.k = "string" -> "StringOutput"
      [] a.v.k = "resource" -> "ResourceOutput"
      [] OTHER -> "AnyOutput"
OutputOf(a) == GoOutput(OutputTypeOf(a), "same", a)
SecretOutput == OutputOf(Awaited(Str, TRUE, TRUE, << >>))
ResourceOutput == OutputOf(Awaited(GoResource("X"), TRUE, FALSE, << >>))
UnknownOutput == OutputOf(Awaited(GoNil("interface"), FALSE, FALSE, <<"R">>))

\* The inputs of the model: plain values, Outputs, and slices, maps, structs
\* and archives of them.
Inputs ==
    LET
        Awaitables ==
            {Awaited(v, TRUE, s, d) : v \in {GoNil("interface"), Str, GoResource("X")},
                                      s \in BOOLEAN, d \in {<< >>, <<"R">>}}
                \cup {Awaited(GoNil("interface"), FALSE, s, d) : s \in BOOLEAN, d \in {<< >>, <<"R">>}}
                \cup {AwaitFailed("boom")}
        Outputs ==
            {OutputOf(a) : a \in Awaitables}
                \cup {GoOutput("StringOutput", c, Awaited(Str, TRUE, FALSE, << >>)) :
                        c \in {"convertible", "mismatch"}}
        Leaves ==
            {GoNil("interface"), GoNil("ptr"), GoNil("input"), Str, GoFunc, GoResource("X"),
             GoResource("R"), NilSlice, NilMap, GoAsset(FALSE), GoAsset(TRUE)}

        Items == {GoNil("ptr"), Str, GoResource("X"), SecretOutput, ResourceOutput, UnknownOutput}
        MapItems == {GoNil("ptr"), GoResource("X"), SecretOutput}
        Slices == {GoSlice(s) : s \in UNION {[1..n -> Items] : n \in 0..MaxLen}}
        Maps ==
            {GoMap("string", <<Entry("a", v)>>) : v \in Items}
                \cup {GoMap("string", <<Entry(ks[1], v), Entry(ks[2], w)>>) :
                        ks \in {<<"a", "b">>, <<"b", "a">>}, v \in MapItems, w \in MapItems}
                \cup {GoMap("int", <<Entry("1", Str)>>)}
        Structs ==
            {GoStruct(<<Field(tag, v)>>) : tag \in {"a", ""}, v \in Items \cup {NilSlice, NilMap}}
                \cup {GoStruct(<<Field(tag, v), Field("b", w)>>) :
                        tag \in {"a", ""}, v \in Items, w \in {Str, GoNil("ptr")}}
        Archives ==
            {GoArchive(TRUE, << >>)}
                \cup {GoArchive(FALSE, <<Entry("a", v)>>) :
                        v \in {GoAsset(FALSE), GoAsset(TRUE), SecretOutput, UnknownOutput}}
        Nested ==
            {GoSlice(<<GoSlice(<<SecretOutput>>)>>),
             GoSlice(<<Str, GoArchive(FALSE, <<Entry("a", UnknownOutput)>>)>>),
             GoStruct(<<Field("a", GoMap("string", <<Entry("b", GoSlice(<<UnknownOutput>>))>>))>>),
             GoPtr(GoStruct(<<Field("a", Str)>>)),
             GoPtr(GoStruct(<<Field("a", SecretOutput), Field("b", Str)>>)),
             GoPtr(Str),
             OutputOf(Awaited(GoSlice(<<GoResource("X"), Str>>), TRUE, FALSE, << >>)),
             OutputOf(Awaited(GoSlice(<<GoResource("X")>>), TRUE, TRUE, <<"R">>)),
             OutputOf(Awaited(GoStruct(<<Field("a", GoResource("R"))>>), TRUE, FALSE, <<"X">>)),
             GoSlice(<<GoMap("int", <<Entry("1", Str)>>)>>),
             GoStruct(<<Field("a", GoMap("int", << >>))>>),
             GoMap("string", <<Entry("a", GoFunc)>>),
             GoStruct(<<Field("a", Str), Field("b", GoArchive(TRUE, << >>))>>),
             GoSlice(<<SecretOutput, GoAsset(TRUE)>>),
             GoPtr(GoMap("int", <<Entry("1", Str)>>))}
                \cup {OutputOf(Awaited(Str, known, FALSE, d)) :
                        known \in BOOLEAN, d \in {<<"X", "R">>, <<"R", "X">>, <<"X", "X">>}}
    IN  Leaves \cup Outputs \cup Slices \cup Maps \cup Structs \cup Archives \cup Nested

NotMarshaled ==
    [st |-> "none", op |-> "none", v |-> NullProperty, deps |-> << >>, pmap |-> << >>,
     pdeps |-> << >>, urns |-> {}, err |-> NoErr, awaited |-> {}]

\* "returned", or "panicked" when a contract.Assertf failed.
Outcome(err) == IF err \in Panics THEN "panicked" ELSE "returned"

\* marshalInputOptions(input, anyType, opts)
MarshalInput ==
    /\ marshaled.st = "none"
    /\ LET r == marshalInputOptions(tree, input, options)
       IN  marshaled' = [NotMarshaled EXCEPT !.st = Outcome(r.err), !.op = "marshalInput",
                                             !.v = r.v, !.deps = r.deps, !.err = r.err,
                                             !.awaited = r.awaited]
    /\ UNCHANGED <<input, options, futureVars, depVars, wireVars>>

\* marshalInputsOptions(input, opts), for an input that is not an Output.
MarshalInputs ==
    /\ marshaled.st = "none"
    /\ input.k # "output"
    /\ LET r == marshalInputsOptions(tree, input, options)
       IN  marshaled' = [NotMarshaled EXCEPT !.st = Outcome(r.err), !.op = "marshalInputs",
                                             !.pmap = r.pmap, !.pdeps = r.pdeps,
                                             !.urns = r.urns, !.err = r.err,
                                             !.awaited = r.awaited]
    /\ UNCHANGED <<input, options, futureVars, depVars, wireVars>>

IdleMarshal ==
    /\ input = GoNil("interface")
    /\ options = NoOptions
    /\ marshaled = NotMarshaled

(***************************************************************************)
(* The versioned registries of resource packages and resource modules.     *)
(***************************************************************************)
\* A semantic version is <<major, minor, patch>>; nullVersion is the
\* wildcard.
nullVersion == <<0, 0, 0>>

\* v.GTE(w) of semver.Version.
GTE(v, w) ==
    \/ v[1] > w[1]
    \/ v[1] = w[1] /\ v[2] > w[2]
    \/ v[1] = w[1] /\ v[2] = w[2] /\ v[3] >= w[3]

\* A Versioned constructor: its version, and whether constructing with it
\* succeeds.
Versioned(version, ctor) == [version |-> version, ctor |-> ctor]

\* init(): versionedMap{versions: make(map[string][]Versioned)}
EmptyRegistry == [packages |-> << >>, modules |-> << >>]

VersionsOf(vm, key) == IF key \in DOMAIN vm THEN vm[key] ELSE << >>

\* The first candidate is returned whatever follows it (mutant of LoadFrom).
LoadFirst(vs, version, i, best) ==
    LET cands == SelectSeq(vs, LAMBDA e : version = nullVersion \/ e.version[1] = version[1])
    IN  IF cands = << >> THEN best ELSE [v |-> cands[1], ok |-> TRUE]

\* The loop of Load over vm.versions[key]: (bestVersion, found).
RECURSIVE LoadFrom(_, _, _, _)
LoadFrom(vs, version, i, best) ==
    IF i > Len(vs) THEN best
    ELSE IF version # nullVersion /\ vs[i].version[1] # version[1]
         THEN LoadFrom(vs, version, i + 1, best)
    ELSE IF vs[i].version = version THEN [v |-> vs[i], ok |-> TRUE]
    ELSE IF ~best.ok THEN LoadFrom(vs, version, i + 1, [v |-> vs[i], ok |-> TRUE])
    ELSE IF GTE(vs[i].version, best.v.version)
         THEN LoadFrom(vs, version, i + 1, [v |-> vs[i], ok |-> TRUE])
    ELSE LoadFrom(vs, version, i + 1, best)

\* Every version is looked up as the wildcard (mutant of Load).
LoadAnyMajor(vm, key, version) ==
    LoadFrom(VersionsOf(vm, key), nullVersion, 1,
             [v |-> Versioned(nullVersion, "none"), ok |-> FALSE])

\* func (vm *versionedMap) Load(key string, version semver.Version) (Versioned, bool)
Load(vm, key, version) ==
    LoadFrom(VersionsOf(vm, key), version, 1,
             [v |-> Versioned(nullVersion, "none"), ok |-> FALSE])

\* hasVersion(vm.versions[key], value.Version())
hasVersion(versions, version) == \E i \in DOMAIN versions : versions[i].version = version

\* The value is appended whatever is registered (mutant of Store).
StoreAlways(vm, key, value) ==
    [vm |-> Put(vm, key, Append(VersionsOf(vm, key), value)), err |-> NoErr]

\* func (vm *versionedMap) Store(key string, value Versioned) error
Store(vm, key, value) ==
    IF key \in DOMAIN vm /\ hasVersion(vm[key], value.version)
    THEN [vm |-> vm, err |-> "existing registration"]
    ELSE [vm |-> Put(vm, key, Append(VersionsOf(vm, key), value)), err |-> NoErr]

\* The packages, module keys (moduleKey(pkg, mod)) and versions that are
\* registered, at most MaxRegs registrations in all.
Packages == {"aws"}
ModuleKeys == {"aws:s3", "pulumi:providers"}
Versions == {<<1, 0, 0>>, <<1, 2, 0>>, <<2, 0, 0>>}
Registered ==
    LET count(vm) == IF DOMAIN vm = {} THEN 0
                     ELSE LET n[S \in SUBSET DOMAIN vm] ==
                                 IF S = {} THEN 0
                                 ELSE LET key == CHOOSE key \in S : TRUE
                                      IN  Len(vm[key]) + n[S \ {key}]
                          IN  n[DOMAIN vm]
    IN  count(registry.packages) + count(registry.modules)

\* RegisterResourcePackage(pkg, resourcePackage): panics on a duplicate.
RegisterResourcePackage(pkg, value) ==
    /\ ~fatal
    /\ unmarshaled.st = "none"
    /\ loaded.st = "none"
    /\ Registered < MaxRegs
    /\ LET r == Store(registry.packages, pkg, value)
       IN  /\ registry' = [registry EXCEPT !.packages = r.vm]
           /\ fatal' = (r.err # NoErr)
    /\ UNCHANGED <<cell, pc, fk, calls, got, aw, depVars, marshalVars, wire, dest,
                   unmarshaled, registryVars>>

\* RegisterResourceModule(pkg, mod, module): panics on a duplicate.
RegisterResourceModule(key, value) ==
    /\ ~fatal
    /\ unmarshaled.st = "none"
    /\ loaded.st = "none"
    /\ Registered < MaxRegs
    /\ LET r == Store(registry.modules, key, value)
       IN  /\ registry' = [registry EXCEPT !.modules = r.vm]
           /\ fatal' = (r.err # NoErr)
    /\ UNCHANGED <<cell, pc, fk, calls, got, aw, depVars, marshalVars, wire, dest,
                   unmarshaled, registryVars>>

\* What a lookup returned: (Versioned, bool) of Load(key, version) on the
\* registry of packages or of modules.
NotFound == [v |-> Versioned(nullVersion, "none"), ok |-> FALSE]
NotLoaded ==
    [st |-> "none", vm |-> "packages", key |-> "", version |-> nullVersion,
     v |-> NotFound.v, ok |-> FALSE]

\* The keys and versions that are looked up: registered keys and a key that
\* never is, the wildcard, registered versions and versions that are not.
LookupKeys == [packages |-> Packages \cup {"gcp"}, modules |-> ModuleKeys]
LookupVersions == {nullVersion, <<1, 0, 0>>, <<1, 5, 0>>, <<2, 1, 0>>, <<3, 0, 0>>}

\* resourcePackages.Load(key, version) / resourceModules.Load(key, version)
LoadVersion(which, key, version) ==
    /\ ~fatal
    /\ unmarshaled.st = "none"
    /\ loaded.st = "none"
    /\ LET r == Load(registry[which], key, version)
       IN  loaded' = [st |-> "returned", vm |-> which, key |-> key, version |-> version,
                      v |-> r.v, ok |-> r.ok]
    /\ UNCHANGED <<futureVars, depVars, marshalVars, wire, dest, unmarshaled, registry,
                   mu, procs>>

\* No goroutine uses the registries concurrently.
NoLock == [writer |-> 0, readers |-> {}]
IdleLocks ==
    /\ mu = NoLock
    /\ procs = << >>

(***************************************************************************)
(* The registry under concurrent use.  versionedMap embeds a sync.RWMutex: *)
(* mu.writer is the goroutine that holds it for writing (0: none),         *)
(* mu.readers those that hold it for reading.  Each goroutine runs one     *)
(* Store or one Load on resourcePackages, a statement at a time.           *)
(***************************************************************************)
NumProcs == 3
Procs == 1 .. NumProcs

\* A bare-bones mutex that never blocks (mutant of canLock).
canLockAlways(m) == TRUE

\* vm.Lock() proceeds when nobody holds the mutex; vm.RLock() when no
\* writer does.
canLock(m) == m.writer = 0 /\ m.readers = {}
canRLock(m) == m.writer = 0

StoreCall(key, value) ==
    [op |-> "Store", key |-> key, value |-> value, version |-> nullVersion,
     pc |-> "start", vs |-> << >>, res |-> NotFound, err |-> NoErr]
LoadCall(key, version) ==
    [op |-> "Load", key |-> key, value |-> NotFound.v, version |-> version,
     pc |-> "start", vs |-> << >>, res |-> NotFound, err |-> NoErr]
Calls ==
    {StoreCall("aws", Versioned(v, "ok")) : v \in {<<1, 0, 0>>, <<1, 2, 0>>}}
    \cup {LoadCall("aws", v) : v \in {nullVersion, <<1, 0, 0>>}}

At(g, op, at) == procs[g].op = op /\ procs[g].pc = at
Goto(g, to) == procs' = [procs EXCEPT ![g].pc = to]

\* vm.Lock()
Lock(g) ==
    /\ At(g, "Store", "start")
    /\ canLock(mu)
    /\ mu' = [mu EXCEPT !.writer = g]
    /\ Goto(g, "check")
    /\ UNCHANGED <<futureVars, depVars, marshalVars, wire, dest, unmarshaled, registry, loaded>>

\* if _, exists := vm.versions[key]; exists && hasVersion(...) { return err }
StoreCheck(g) ==
    /\ At(g, "Store", "check")
    /\ IF hasVersion(VersionsOf(registry.packages, procs[g].key), procs[g].value.version)
       THEN procs' = [procs EXCEPT ![g].pc = "unlock", ![g].err = "existing registration"]
       ELSE Goto(g, "append")
    /\ UNCHANGED <<futureVars, depVars, marshalVars, wire, dest, unmarshaled, registry, loaded, mu>>

\* vm.versions[key] = append(vm.versions[key], value)
StoreAppend(g) ==
    /\ At(g, "Store", "append")
    /\ registry' = [registry EXCEPT !.packages =
                       Put(registry.packages, procs[g].key,
                           Append(VersionsOf(registry.packages, procs[g].key), procs[g].value))]
    /\ Goto(g, "unlock")
    /\ UNCHANGED <<futureVars, depVars, marshalVars, wire, dest, unmarshaled, loaded, mu>>

\* defer vm.Unlock()
Unlock(g) ==
    /\ At(g, "Store", "unlock")
    /\ mu' = [mu EXCEPT !.writer = 0]
    /\ Goto(g, "done")
    /\ UNCHANGED <<futureVars, depVars, marshalVars, wire, dest, unmarshaled, registry, loaded>>

\* vm.RLock()
RLock(g) ==
    /\ At(g, "Load", "start")
    /\ canRLock(mu)
    /\ mu' = [mu EXCEPT !.readers = @ \cup {g}]
    /\ Goto(g, "range")
    /\ UNCHANGED <<futureVars, depVars, marshalVars, wire, dest, unmarshaled, registry, loaded>>

\* for _, v := range vm.versions[key]: the slice is read once.
LoadRange(g) ==
    /\ At(g, "Load", "range")
    /\ procs' = [procs EXCEPT ![g].pc = "scan",
                              ![g].vs = VersionsOf(registry.packages, procs[g].key)]
    /\ UNCHANGED <<futureVars, depVars, marshalVars, wire, dest, unmarshaled, registry, loaded, mu>>

\* The loop and the return value.
LoadScan(g) ==
    /\ At(g, "Load", "scan")
    /\ procs' = [procs EXCEPT ![g].pc = "unlock",
                              ![g].res = LoadFrom(procs[g].vs, procs[g].version, 1, NotFound)]
    /\ UNCHANGED <<futureVars, depVars, marshalVars, wire, dest, unmarshaled, registry, loaded, mu>>

\* defer vm.RUnlock()
RUnlock(g) ==
    /\ At(g, "Load", "unlock")
    /\ mu' = [mu EXCEPT !.readers = @ \ {g}]
    /\ Goto(g, "done")
    /\ UNCHANGED <<futureVars, depVars, marshalVars, wire, dest, unmarshaled, registry, loaded>>

(***************************************************************************)
(* Unmarshaling: wire PropertyValues to Go values.                         *)
(***************************************************************************)
\* semver.ParseTolerant of the package versions of the model's references.
ParseTolerant ==
    [s \in {"1.0.0", "2.1", "bad"} |->
        CASE s = "1.0.0" -> [version |-> <<1, 0, 0>>, err |-> NoErr]
          [] s = "2.1" -> [version |-> <<2, 1, 0>>, err |-> NoErr]
          [] s = "bad" -> [version |-> nullVersion, err |-> "invalid semver"]]

\* The type token of each URN: its module (pkg:mod) and member name.
\* urn:P is a provider, urn:X a custom resource, urn:R a component.
typeOf == [u \in {"urn:P", "urn:X", "urn:R"} |->
             CASE u = "urn:P" -> [module |-> "pulumi:providers", name |-> "aws"]
               [] u = "urn:X" -> [module |-> "aws:s3", name |-> "Bucket"]
               [] u = "urn:R" -> [module |-> "aws:s3", name |-> "Site"]]

\* The resource handles that resolving a reference builds: by a registered
\* constructor (ConstructProvider, Construct), or as a dependency-only
\* provider, custom resource (with its ID) or component.
Handle(via, urn, id, version) ==
    [k |-> "handle", via |-> via, urn |-> urn, id |-> id, version |-> version]
Resolved1(v, err) == [v |-> v, err |-> err]
NoHandle == GoNil("interface")
ConstructErr == "constructor failed"
ParseErr(s) == "failed to parse provider version: " \o s

\* resourcePackage.ConstructProvider / resourceModule.Construct
construct(via, entry, ref) ==
    IF entry.ctor = "err" THEN Resolved1(NoHandle, ConstructErr)
    ELSE Resolved1(Handle(via, ref.urn, "", entry.version), NoErr)

\* Without a constructor the resolution is an error (mutant of
\* dependencyResource).
dependencyResourceFails(ref) == Resolved1(NoHandle, "no constructor registered")

\* if id, hasID := ref.IDString(); hasID { newDependencyCustomResource }
\* else newDependencyResource
dependencyResource(ref) ==
    IF ref.hasID THEN Resolved1(Handle("dependencyCustom", ref.urn, ref.id, nullVersion), NoErr)
    ELSE Resolved1(Handle("dependency", ref.urn, "", nullVersion), NoErr)

unmarshalResourceReference(reg, ref) ==
    LET parsed == IF ref.version # "" THEN ParseTolerant[ref.version]
                  ELSE [version |-> nullVersion, err |-> NoErr]
        resType == typeOf[ref.urn]
        pkg == Load(reg.packages, resType.name, parsed.version)
        mod == Load(reg.modules, resType.module, parsed.version)
    IN  IF parsed.err # NoErr THEN Resolved1(NoHandle, ParseErr(ref.version))
        ELSE IF resType.module = "pulumi:providers"
        THEN IF pkg.ok THEN construct("package", pkg.v, ref)
             ELSE Resolved1(Handle("dependencyProvider", ref.urn, ref.id, nullVersion), NoErr)
        ELSE IF mod.ok THEN construct("module", mod.v, ref)
        ELSE dependencyResource(ref)


\* What an unmarshal call returns: (value, secret, err); for unmarshalOutput
\* the value is what the destination holds afterwards.
Unmarshaled(v, secret, err) == [v |-> v, secret |-> secret, err |-> err]

\* The order in which this run ranges over the keys of a map.
KeyOrder(m) == CHOOSE s \in Orderings(DOMAIN m) : TRUE
ValuesIn(m) == [i \in DOMAIN KeyOrder(m) |-> m[KeyOrder(m)[i]]]
GoMapOf(keys, vals) == GoMap("string", [i \in DOMAIN keys |-> Entry(keys[i], vals[i])])

MalformedErr == "expected asset to be one of File, String, or Remote; got none"
MalformedArchiveErr == "expected archive to be one of Assets, File, or Remote; got none"

RECURSIVE unmarshalPropertyValue(_, _)
RECURSIVE unmarshalValues(_, _, _, _)

\* The loops of unmarshalPropertyValue over array elements, object values
\* and archive assets: secret = secret || esecret, the first error returned.
unmarshalValues(reg, vs, i, acc) ==
    IF i > Len(vs) THEN acc
    ELSE LET r == unmarshalPropertyValue(reg, vs[i])
         IN  IF r.err # NoErr THEN Unmarshaled(<< >>, FALSE, r.err)
             ELSE unmarshalValues(reg, vs, i + 1,
                                  Unmarshaled(Append(acc.v, r.v), acc.secret \/ r.secret, NoErr))

unmarshalPropertyValue(reg, v) ==
    CASE v.k = "computed" -> Unmarshaled(GoNil("interface"), FALSE, NoErr)
      [] v.k = "output" ->
           IF ~v.known THEN Unmarshaled(GoNil("interface"), v.secret, NoErr)
           ELSE LET r == unmarshalPropertyValue(reg, v.element)
                IN  IF r.err # NoErr THEN Unmarshaled(GoNil("interface"), FALSE, r.err)
                    ELSE Unmarshaled(r.v, v.secret, NoErr)
      [] v.k = "secret" ->
           LET r == unmarshalPropertyValue(reg, v.element)
           IN  IF r.err # NoErr THEN Unmarshaled(GoNil("interface"), FALSE, r.err)
               ELSE Unmarshaled(r.v, TRUE, NoErr)
      [] v.k = "array" ->
           LET r == unmarshalValues(reg, v.elems, 1, Unmarshaled(<< >>, FALSE, NoErr))
           IN  IF r.err # NoErr THEN Unmarshaled(GoNil("interface"), FALSE, r.err)
               ELSE Unmarshaled(GoSlice(r.v), r.secret, NoErr)
      [] v.k = "object" ->
           LET r == unmarshalValues(reg, ValuesIn(v.obj), 1, Unmarshaled(<< >>, FALSE, NoErr))
           IN  IF r.err # NoErr THEN Unmarshaled(GoNil("interface"), FALSE, r.err)
               ELSE Unmarshaled(GoMapOf(KeyOrder(v.obj), r.v), r.secret, NoErr)
      [] v.k = "asset" ->
           IF v.kind = "none" THEN Unmarshaled(GoNil("interface"), FALSE, MalformedErr)
           ELSE Unmarshaled(GoAsset(FALSE), FALSE, NoErr)
      [] v.k = "archive" ->
           IF v.kind = "none" THEN Unmarshaled(GoNil("interface"), FALSE, MalformedErr)
           ELSE IF v.kind # "assets" THEN Unmarshaled(GoArchive(FALSE, << >>), FALSE, NoErr)
           ELSE LET r == unmarshalValues(reg, ValuesIn(v.assets), 1,
                                         Unmarshaled(<< >>, FALSE, NoErr))
                IN  IF r.err # NoErr THEN Unmarshaled(GoNil("interface"), FALSE, r.err)
                    ELSE Unmarshaled(GoArchive(FALSE, GoMapOf(KeyOrder(v.assets), r.v).entries),
                                     r.secret, NoErr)
      [] v.k = "resource" ->
           LET r == unmarshalResourceReference(reg, v)
           IN  Unmarshaled(r.v, FALSE, r.err)
      [] v.k = "null" -> Unmarshaled(GoNil("interface"), FALSE, NoErr)
      [] OTHER -> Unmarshaled(GoString(v.s), FALSE, NoErr)

\* Destination types: interface{}, string, []T, map[string]T, *T and a
\* struct of fields with pulumi tags ("" for a field without one).
TAny == [k |-> "any"]
TString == [k |-> "string"]
TSlice(elem) == [k |-> "slice", elem |-> elem]
TMap(elem) == [k |-> "map", elem |-> elem]
TPtr(elem) == [k |-> "ptr", elem |-> elem]
TStruct(fields) == [k |-> "struct", fields |-> fields]
TChan == [k |-> "chan"]

\* The zero value of a type: what a destination holds before it is set.
RECURSIVE Zero(_)
Zero(T) ==
    CASE T.k = "any" -> GoNil("interface")
      [] T.k = "string" -> GoString("")
      [] T.k = "slice" -> NilSlice
      [] T.k = "map" -> NilMap
      [] T.k = "ptr" -> GoNil("ptr")
      [] T.k = "struct" ->
           GoStruct([i \in DOMAIN T.fields |-> Field(T.fields[i].tag, Zero(T.fields[i].v))])
      [] OTHER -> GoNil("interface")

\* resource.IsInternalPropertyKey
IsInternalPropertyKey(key) == key \in {"__defaults"}

\* fmt.Errorf("expected a %v, got a %s", dest.Type(), ...)
ExpectedErr(T, actual) == "expected a " \o T.k \o ", got " \o actual

RECURSIVE unmarshalOutput(_, _, _)
RECURSIVE unmarshalEach(_, _, _, _, _)

\* The loops of unmarshalOutput over slice elements, map entries and struct
\* fields: vs[i] into a destination of type ts[i].  A failing element stops
\* the loop; what its destination holds by then is kept for a struct, whose
\* fields are set in place.
unmarshalEach(reg, vs, ts, i, acc) ==
    IF i > Len(vs) THEN acc
    ELSE LET r == unmarshalOutput(reg, vs[i], ts[i])
         IN  IF r.err # NoErr THEN Unmarshaled(Append(acc.v, r.v), FALSE, r.err)
             ELSE unmarshalEach(reg, vs, ts, i + 1,
                                Unmarshaled(Append(acc.v, r.v), acc.secret \/ r.secret, NoErr))

\* The struct whose tagged fields present in obj hold the unmarshaled values
\* vals (those reached before an error) and whose other fields stay zero.
StructOfFields(fields, obj, vals) ==
    LET isSet(f) == f.tag # "" /\ f.tag \in DOMAIN obj
        nth(i) == Len(SelectSeq(SubSeq(fields, 1, i), isSet))
    IN  GoStruct([i \in DOMAIN fields |->
            IF isSet(fields[i]) /\ nth(i) <= Len(vals)
            THEN Field(fields[i].tag, vals[nth(i)])
            ELSE Field(fields[i].tag, Zero(fields[i].v))])

\* unmarshalOutput unmarshals a single output variable into its runtime
\* representation, returning a bool that indicates secretness.  The value of
\* the result is what dest holds when the call returns.
unmarshalOutput(reg, v, T) ==
    LET none == Unmarshaled(<< >>, FALSE, NoErr)
        fail(err) == Unmarshaled(Zero(T), FALSE, err)
        plain == unmarshalPropertyValue(reg, v)
    IN  IF v.k \in {"null", "computed"} \/ (v.k = "output" /\ ~v.known)
        THEN Unmarshaled(Zero(T), FALSE, NoErr)
        ELSE IF T.k = "ptr"
        THEN LET r == unmarshalOutput(reg, v, T.elem)
             IN  Unmarshaled(GoPtr(r.v), r.secret, r.err)
        ELSE CASE v.k \in {"asset", "archive"} ->
                    IF T.k # "any" THEN fail(ExpectedErr(T, "an " \o v.k))
                    ELSE IF plain.err # NoErr THEN fail(plain.err)
                    ELSE plain
               [] v.k = "secret" ->
                    LET r == unmarshalOutput(reg, v.element, T)
                    IN  Unmarshaled(r.v, r.err = NoErr, r.err)
               [] v.k = "resource" ->
                    IF plain.err # NoErr THEN fail(plain.err)
                    ELSE IF T.k # "any" THEN fail(ExpectedErr(T, "a resource"))
                    ELSE plain
               [] v.k = "output" ->
                    LET r == unmarshalOutput(reg, v.element, T)
                    IN  Unmarshaled(r.v, r.err = NoErr /\ v.secret, r.err)
               [] T.k = "string" ->
                    IF v.k # "string" THEN fail(ExpectedErr(T, "a " \o v.k))
                    ELSE Unmarshaled(GoString(v.s), FALSE, NoErr)
               [] T.k = "slice" ->
                    IF v.k # "array" THEN fail(ExpectedErr(T, "a " \o v.k))
                    ELSE LET r == unmarshalEach(reg, v.elems, [i \in DOMAIN v.elems |-> T.elem],
                                                1, none)
                         IN  IF r.err # NoErr THEN fail(r.err)
                             ELSE Unmarshaled(GoSlice(r.v), r.secret, NoErr)
               [] T.k = "map" ->
                    IF v.k # "object" THEN fail(ExpectedErr(T, "a " \o v.k))
                    ELSE LET keys == SelectSeq(KeyOrder(v.obj),
                                               LAMBDA key : ~IsInternalPropertyKey(key))
                             r == unmarshalEach(reg, [i \in DOMAIN keys |-> v.obj[keys[i]]],
                                                [i \in DOMAIN keys |-> T.elem], 1, none)
                         IN  IF r.err # NoErr THEN fail(r.err)
                             ELSE Unmarshaled(GoMapOf(keys, r.v), r.secret, NoErr)
               [] T.k = "any" -> IF plain.err # NoErr THEN fail(plain.err) ELSE plain
               [] T.k = "struct" ->
                    IF v.k # "object" THEN fail(ExpectedErr(T, "a " \o v.k))
                    ELSE LET set == SelectSeq(T.fields,
                                        LAMBDA f : f.tag # "" /\ f.tag \in DOMAIN v.obj)
                             r == unmarshalEach(reg, [i \in DOMAIN set |-> v.obj[set[i].tag]],
                                                Vals(set), 1, none)
                         IN  Unmarshaled(StructOfFields(T.fields, v.obj, r.v), r.secret, r.err)
               [] OTHER -> fail("cannot unmarshal into type " \o T.k)

\* The wire values handed to the unmarshalers.  An object with two entries
\* holds only strings, Nulls, Secrets and Outputs of strings, so that the
\* order in which its keys are ranged over does not change the result.
WireStr == NewStringProperty("x")
Wires ==
    LET Refs == {ResourceReference("urn:X", "id-X", TRUE, ""),
                 ResourceReference("urn:R", "", FALSE, ""),
                 ResourceReference("urn:X", "id-X", TRUE, "bad")}
        Outputs ==
            {NewOutputProperty(e, TRUE, s, << >>) : e \in {WireStr, MakeSecret(WireStr)},
                                                     s \in BOOLEAN}
                \cup {NewOutputProperty(NullProperty, FALSE, s, << >>) : s \in BOOLEAN}
        Leaves == {NullProperty, WireStr, MakeComputed, NewAssetProperty("text"),
                   NewAssetProperty("none"), MakeSecret(WireStr), MakeSecret(NullProperty)}
        StringItems == {WireStr, NullProperty, MakeSecret(WireStr)} \cup Outputs
        Items == StringItems \cup {NewAssetProperty("none"),
                                   ResourceReference("urn:X", "id-X", TRUE, "")}
        Arrays == {NewArrayProperty(s) : s \in UNION {[1..n -> Items] : n \in 0..MaxLen}}
        Objects ==
            {NewObjectProperty([a |-> v]) : v \in Items}
                \cup {NewObjectProperty([a |-> v, b |-> w]) : v \in StringItems, w \in StringItems}
                \cup {NewObjectProperty(("a" :> WireStr) @@ ("__defaults" :> w)) : w \in StringItems}
        Archives ==
            {NewArchiveProperty("assets", [a |-> v]) :
                    v \in {NewAssetProperty("text"), NewAssetProperty("none"),
                           NewArchiveProperty("path", << >>)}}
                \cup {NewArchiveProperty(kind, << >>) : kind \in {"assets", "path", "uri", "none"}}
        Nested ==
            {MakeSecret(NewArrayProperty(<<WireStr>>)),
             MakeSecret(NewOutputProperty(NullProperty, FALSE, FALSE, << >>)),
             NewOutputProperty(NewArrayProperty(<<MakeSecret(WireStr)>>), TRUE, FALSE, << >>),
             NewOutputProperty(NewObjectProperty([a |-> MakeSecret(WireStr)]), TRUE, FALSE, << >>),
             NewOutputProperty(NewOutputProperty(WireStr, TRUE, TRUE, << >>), TRUE, FALSE, << >>),
             NewObjectProperty([a |-> NewObjectProperty([b |-> MakeSecret(WireStr)])]),
             NewArrayProperty(<<NewArrayProperty(<<NewOutputProperty(NullProperty, FALSE, TRUE,
                                                                     << >>)>>)>>)}
    IN  Refs \cup Outputs \cup Leaves \cup Arrays \cup Objects \cup Archives \cup Nested

\* The types of the destinations of unmarshalOutput.
Dests ==
    {TAny, TString, TChan, TPtr(TAny), TPtr(TString), TSlice(TAny), TSlice(TString),
     TMap(TAny), TMap(TString),
     TStruct(<<Field("a", TString), Field("", TString)>>),
     TStruct(<<Field("b", TString), Field("a", TPtr(TAny))>>)}

NotUnmarshaled ==
    [st |-> "none", op |-> "none", v |-> GoNil("interface"), secret |-> FALSE, err |-> NoErr]

Return(op, r) ==
    [st |-> "returned", op |-> op, v |-> r.v, secret |-> r.secret, err |-> r.err]

\* unmarshalPropertyValue(ctx, wire)
UnmarshalPropertyValue ==
    /\ ~fatal
    /\ unmarshaled.st = "none"
    /\ unmarshaled' = Return("unmarshalPropertyValue", unmarshalPropertyValue(registry, wire))
    /\ UNCHANGED <<futureVars, depVars, marshalVars, wire, dest, registry, registryVars>>

\* unmarshalOutput(ctx, wire, reflect.New(dest).Elem())
UnmarshalOutput ==
    /\ ~fatal
    /\ unmarshaled.st = "none"
    /\ unmarshaled' = Return("unmarshalOutput", unmarshalOutput(registry, wire, dest))
    /\ UNCHANGED <<futureVars, depVars, marshalVars, wire, dest, registry, registryVars>>

\* unmarshalResourceReference(ctx, wire.ResourceReferenceValue())
UnmarshalResourceReference ==
    /\ ~fatal
    /\ unmarshaled.st = "none"
    /\ wire.k = "resource"
    /\ LET r == unmarshalResourceReference(registry, wire)
       IN  unmarshaled' = Return("unmarshalResourceReference", Unmarshaled(r.v, FALSE, r.err))
    /\ UNCHANGED <<futureVars, depVars, marshalVars, wire, dest, registry, registryVars>>

\* The references that are resolved against the registries.
References ==
    {ResourceReference(u, IF h THEN "id" ELSE "", h, s) :
        u \in DOMAIN typeOf, h \in BOOLEAN, s \in {""} \cup DOMAIN ParseTolerant}

IdleWire ==
    /\ wire = NullProperty
    /\ dest = TAny
    /\ unmarshaled = NotUnmarshaled
    /\ registry = EmptyRegistry
    /\ loaded = NotLoaded
    /\ IdleLocks

(***************************************************************************)
(* unmarshalPropertyMap: wire values to Inputs.  Plain values stay plain;  *)
(* Computed, Secret, Output and ResourceReference values become Outputs.   *)
(***************************************************************************)
\* ctx.newDependencyResource(URN(urn)): a resource that holds this URN and
\* nothing else.  It is named as the URN is (Nameless for the empty URN).
newDependencyResource(urn) == CHOOSE n \in DOMAIN urnOf : urnOf[n] = urn
DependencyTree ==
    ResTree([n \in DOMAIN urnOf |-> << >>], [n \in DOMAIN urnOf |-> "DependencyOnly"],
            [n \in DOMAIN urnOf |-> "ok"], [n \in DOMAIN urnOf |-> "unknown"])

\* then(first), with first evaluated once.
With(first, then(_)) == CHOOSE out \in {then(it) : it \in {first}} : TRUE

\* What awaiting ToOutput(v) returns: a plain value as it is, an Output its
\* result, an Array or Map the values of its elements, known if all are,
\* secret if one is, with the dependencies of all.
RECURSIVE lift(_)
RECURSIVE liftSeq(_, _, _)
liftSeq(vs, i, acc) ==
    IF i > Len(vs) THEN acc
    ELSE With(lift(vs[i]), LAMBDA a :
             liftSeq(vs, i + 1, Awaited(Append(acc.v, a.v), acc.known /\ a.known,
                                         acc.secret \/ a.secret, acc.deps \o a.deps)))
lift(v) ==
    CASE v.k = "output" -> v.res
      [] v.k = "slice" ->
           With(liftSeq(v.elems, 1, Awaited(<< >>, TRUE, FALSE, << >>)), LAMBDA r :
               Awaited(IF r.known THEN GoSlice(r.v) ELSE GoNil("interface"),
                       r.known, r.secret, r.deps))
      [] v.k = "map" ->
           With(liftSeq(Vals(v.entries), 1, Awaited(<< >>, TRUE, FALSE, << >>)), LAMBDA r :
               Awaited(IF r.known THEN GoMapOf(Keys(v.entries), r.v) ELSE GoNil("interface"),
                       r.known, r.secret, r.deps))
      [] OTHER -> Awaited(v, TRUE, FALSE, << >>)

ToOutput(v) == With(lift(v), LAMBDA a : OutputOf(a))
ToSecret(v) == With([lift(v) EXCEPT !.secret = TRUE], LAMBDA a : OutputOf(a))

\* The flags and dependencies of the wire Output alone (mutant of
\* mergeOutput).
mergeOutputOuterOnly(known, secret, deps, a) == Awaited(a.v, known, secret, deps)

\* element = innerValue; known = known && innerKnown; secret = secret ||
\* innerSecret; deps = append(deps, innerDeps...)
mergeOutput(known, secret, deps, a) ==
    Awaited(a.v, known /\ a.known, secret \/ a.secret, deps \o a.deps)

RECURSIVE unmarshalInput(_, _)
RECURSIVE unmarshalInputs(_, _, _, _)
RECURSIVE unmarshalPropertyMap(_, _)

\* The loops over array elements and map values: the first error returned.
unmarshalInputs(reg, vs, i, acc) ==
    IF i > Len(vs) THEN acc
    ELSE With(unmarshalInput(reg, vs[i]), LAMBDA r :
             IF r.err # NoErr THEN Unmarshaled(<< >>, FALSE, r.err)
             ELSE unmarshalInputs(reg, vs, i + 1, Unmarshaled(Append(acc.v, r.v), FALSE, NoErr)))

\* case v.IsOutput(), once the element is unmarshaled into r (nil for an
\* unknown Output).
unmarshalOutputValue(v, r) ==
    IF r.err # NoErr THEN Unmarshaled(GoNil("input"), FALSE, r.err)
    ELSE With([i \in DOMAIN v.dependencies |-> newDependencyResource(v.dependencies[i])],
              LAMBDA deps :
                  With(IF r.v.k # "nil"
                       THEN With(ToOutput(r.v).res,
                                 LAMBDA a : mergeOutput(v.known, v.secret, deps, a))
                       ELSE Awaited(GoNil("interface"), v.known, v.secret, deps),
                       LAMBDA a : Unmarshaled(OutputOf(a), FALSE, NoErr)))

\* unmarshal = func(v resource.PropertyValue) (Input, error)
unmarshalInput(reg, v) ==
    CASE v.k = "null" -> Unmarshaled(GoNil("input"), FALSE, NoErr)
      [] v.k = "string" -> Unmarshaled(GoString(v.s), FALSE, NoErr)
      [] v.k = "array" ->
           With(unmarshalInputs(reg, v.elems, 1, Unmarshaled(<< >>, FALSE, NoErr)), LAMBDA r :
               IF r.err # NoErr THEN Unmarshaled(GoNil("input"), FALSE, r.err)
               ELSE Unmarshaled(GoSlice(r.v), FALSE, NoErr))
      [] v.k = "object" -> unmarshalPropertyMap(reg, v.obj)
      [] v.k = "asset" ->
           IF v.kind = "none" THEN Unmarshaled(GoNil("input"), FALSE, MalformedErr)
           ELSE Unmarshaled(GoAsset(FALSE), FALSE, NoErr)
      [] v.k = "archive" ->
           IF v.kind = "none" THEN Unmarshaled(GoNil("input"), FALSE, MalformedArchiveErr)
           ELSE IF v.kind # "assets" THEN Unmarshaled(GoArchive(FALSE, << >>), FALSE, NoErr)
           ELSE With(unmarshalValues(reg, ValuesIn(v.assets), 1,
                                     Unmarshaled(<< >>, FALSE, NoErr)), LAMBDA r :
                    IF r.err # NoErr THEN Unmarshaled(GoNil("input"), FALSE, r.err)
                    ELSE Unmarshaled(GoArchive(FALSE, GoMapOf(KeyOrder(v.assets), r.v).entries),
                                     FALSE, NoErr))
      [] v.k = "resource" ->
           Unmarshaled(OutputOf(Awaited(GoResource(newDependencyResource(v.urn)),
                                        TRUE, FALSE, << >>)), FALSE, NoErr)
      [] v.k = "computed" ->
           Unmarshaled(OutputOf(Awaited(GoNil("interface"), FALSE, FALSE, << >>)), FALSE, NoErr)
      [] v.k = "secret" ->
           With(unmarshalInput(reg, v.element), LAMBDA r :
               IF r.err # NoErr THEN Unmarshaled(GoNil("input"), FALSE, r.err)
               ELSE Unmarshaled(ToSecret(r.v), FALSE, NoErr))
      [] v.k = "output" ->
           With(IF v.known THEN unmarshalInput(reg, v.element)
                ELSE Unmarshaled(GoNil("input"), FALSE, NoErr),
                LAMBDA r : unmarshalOutputValue(v, r))
      [] OTHER -> Unmarshaled(GoNil("input"), FALSE, "unknown property value")

\* func unmarshalPropertyMap(ctx *Context, v resource.PropertyMap) (Map, error)
unmarshalPropertyMap(reg, m) ==
    With(unmarshalInputs(reg, ValuesIn(m), 1, Unmarshaled(<< >>, FALSE, NoErr)), LAMBDA r :
        IF r.err # NoErr THEN Unmarshaled(NilMap, FALSE, r.err)
        ELSE Unmarshaled(GoMapOf(KeyOrder(m), r.v), FALSE, NoErr))

\* unmarshalPropertyMap(ctx, wire.ObjectValue())
UnmarshalPropertyMap ==
    /\ ~fatal
    /\ unmarshaled.st = "none"
    /\ marshaled.st = "none"
    /\ wire.k = "object"
    /\ unmarshaled' = Return("unmarshalPropertyMap", unmarshalPropertyMap(registry, wire.obj))
    /\ UNCHANGED <<futureVars, depVars, marshalVars, wire, dest, registry, registryVars>>

\* The caller passes the Map that unmarshalPropertyMap returned as the
\* inputs to marshal; the resources it holds are the dependency resources.
PassUnmarshaled ==
    /\ unmarshaled.st = "returned"
    /\ unmarshaled.op = "unmarshalPropertyMap"
    /\ unmarshaled.err = NoErr
    /\ marshaled.st = "none"
    /\ tree = NoTree
    /\ input = GoNil("interface")
    /\ input' = unmarshaled.v
    /\ tree' = DependencyTree
    /\ UNCHANGED <<options, marshaled, futureVars, roots, expanded, reexpanded, wireVars>>

\* unmarshalPropertyMap of the properties that marshalInputs returned.
UnmarshalMarshaled ==
    /\ ~fatal
    /\ marshaled.st = "returned"
    /\ marshaled.op = "marshalInputs"
    /\ marshaled.err = NoErr
    /\ unmarshaled.st = "none"
    /\ wire' = NewObjectProperty(marshaled.pmap)
    /\ unmarshaled' = Return("unmarshalPropertyMap", unmarshalPropertyMap(registry, marshaled.pmap))
    /\ UNCHANGED <<futureVars, depVars, marshalVars, dest, registry, registryVars>>

\* The property maps handed to unmarshalPropertyMap.
PropertyMaps ==
    LET RefX == ResourceReference("urn:X", "id-X", TRUE, "1.0.0")
        RefR == ResourceReference("urn:R", "", FALSE, "")
        Elements == {NullProperty, WireStr, MakeSecret(WireStr), MakeComputed, RefX,
                     NewAssetProperty("none"),
                     NewArrayProperty(<<WireStr>>),
                     NewOutputProperty(WireStr, TRUE, FALSE, <<"urn:R">>),
                     NewOutputProperty(NullProperty, FALSE, TRUE, <<"urn:R">>)}
        Outputs == {NewOutputProperty(e, known, secret, deps) :
                        e \in Elements, known \in BOOLEAN, secret \in BOOLEAN,
                        deps \in {<< >>, <<"urn:X">>, <<"urn:X", "urn:R">>}}
        Leaves == {NullProperty, WireStr, MakeComputed, MakeSecret(WireStr),
                   MakeSecret(NullProperty), RefX, RefR, NewAssetProperty("text"),
                   NewAssetProperty("none"), NewArchiveProperty("none", << >>),
                   NewArchiveProperty("path", << >>),
                   NewArchiveProperty("assets", [a |-> NewAssetProperty("text")])}
        Nested == {NewArrayProperty(<<WireStr, NullProperty>>),
                   NewArrayProperty(<<NewOutputProperty(WireStr, TRUE, TRUE, <<"urn:X">>)>>),
                   MakeSecret(NewArrayProperty(
                       <<NewOutputProperty(WireStr, TRUE, FALSE, <<"urn:X">>)>>)),
                   NewObjectProperty([a |-> WireStr, b |-> NullProperty]),
                   NewObjectProperty([a |-> MakeSecret(WireStr)])}
        Few == {WireStr, NullProperty, MakeSecret(WireStr), NewAssetProperty("none"),
                NewOutputProperty(WireStr, TRUE, FALSE, <<"urn:X">>)}
    IN  {NewObjectProperty([a |-> v]) : v \in Outputs \cup Leaves \cup Nested}
            \cup {NewObjectProperty([a |-> v, b |-> w]) : v \in Few, w \in Few}
            \cup {NewObjectProperty(<< >>)}

(***************************************************************************)
(* Specifications.                                                         *)
(***************************************************************************)
InitFutures ==
    /\ cell = [c \in Cells |-> IF c \in Sources THEN Unsettled ELSE Absent]
    /\ pc = [n \in ApplyCells \cup {"all"} |-> "idle"]
    /\ fk = [n \in ApplyCells |-> [fn |-> "inc", kind |-> "plain"]]
    /\ calls = [n \in ApplyCells |-> << >>]
    /\ got = {}
    /\ aw = [a \in Awaiters |-> Idle]
    /\ fatal = FALSE
    /\ tree = NoTree
    /\ roots = << >>
    /\ expanded = NotCalled
    /\ reexpanded = NotCalled
    /\ IdleMarshal
    /\ IdleWire

\* A producer settles a cell of C that is still unresolved.
Settle(C) ==
    \E c \in C :
        /\ cell[c].st = "pending"
        /\ \/ \E rec \in ResolveArgs : ResolveOutput(c, rec)
           \/ \E rec \in RejectArgs : RejectOutput(c, rec)

\* A producer settles a cell of C a second time.
SettleAgain(C) ==
    \E c \in C :
        /\ IsSettled(c)
        /\ \/ \E rec \in ResolveArgs : ResolveOutput(c, rec)
           \/ \E rec \in RejectArgs : RejectOutput(c, rec)

\* The Apply chain out -> app -> app2, the callback of app possibly
\* returning the Output other.
Init == InitFutures

Next ==
    \/ Settle({"out", "other"})
    \/ \E n \in ApplyCells, fn \in Callbacks, kind \in CallbackKinds : ApplyT(n, fn, kind)
    \/ \E n \in ApplyCells : ApplyRun(n)
    \/ \E n \in ApplyCells : ApplyFlatten(n)

Spec == Init /\ [][Next]_vars

\* One cell, its producers (settling it once, and again), one Apply on it
\* and the awaiting contexts.
NextCell ==
    \/ Settle({"out"})
    \/ SettleAgain({"out"})
    \/ \E fn \in Callbacks, kind \in {"plain", "error"} : ApplyT("app", fn, kind)
    \/ ApplyRun("app")
    \/ \E a \in Awaiters, c \in {"out", "app"} : Await(a, c)
    \/ \E a \in Awaiters : AwaitReturn(a)

SpecCell == Init /\ [][NextCell]_vars

\* The join all = All(out, out2, app) with app = out.ApplyT(f).
NextAll ==
    \/ Settle(Sources)
    \/ \E fn \in Callbacks, kind \in {"plain", "error"} : ApplyT("app", fn, kind)
    \/ ApplyRun("app")
    \/ All
    \/ \E i \in AllIdx : AllAwait(i)

SpecAll == Init /\ [][NextAll]_vars

\* Every producer settles its cell once, every task and every awaiting
\* context that can run eventually does; nobody is obliged to call Apply,
\* All or await.  Liveness does not depend on values, secrets and
\* dependencies, so producers draw from LiveResolveArgs.
LiveResolveArgs == {Resolved(<<1>>, TRUE, FALSE, {}), Resolved(Nil, FALSE, TRUE, {"r1"})}
LiveRejectArgs == {Rejected("boom")}

SettleLive(c) ==
    /\ cell[c].st = "pending"
    /\ \/ \E rec \in LiveResolveArgs : ResolveOutput(c, rec)
       \/ \E rec \in LiveRejectArgs : RejectOutput(c, rec)

AllAwaitSome == \E i \in AllIdx : AllAwait(i)

NextLive ==
    \/ \E c \in Produced : SettleLive(c)
    \/ \E n \in ApplyCells, kind \in CallbackKinds : ApplyT(n, "inc", kind)
    \/ \E n \in ApplyCells : ApplyRun(n)
    \/ \E n \in ApplyCells : ApplyFlatten(n)
    \/ All
    \/ AllAwaitSome
    \/ \E a \in Awaiters, c \in {"app2", "all"} : Await(a, c)
    \/ \E a \in Awaiters : AwaitReturn(a)

Fairness ==
    /\ \A c \in Produced : WF_vars(SettleLive(c))
    /\ \A n \in ApplyCells : WF_vars(ApplyRun(n)) /\ WF_vars(ApplyFlatten(n))
    /\ WF_vars(AllAwaitSome)
    /\ \A a \in Awaiters : WF_vars(AwaitReturn(a))

SpecLive == Init /\ [][NextLive]_vars /\ Fairness

\* expandDependencies applied to a list of roots of an ownership tree.
InitDeps ==
    /\ cell = [c \in Cells |-> Absent]
    /\ pc = [n \in ApplyCells \cup {"all"} |-> "idle"]
    /\ fk = [n \in ApplyCells |-> [fn |-> "inc", kind |-> "plain"]]
    /\ calls = [n \in ApplyCells |-> << >>]
    /\ got = {}
    /\ aw = [a \in Awaiters |-> Idle]
    /\ fatal = FALSE
    /\ tree \in Trees
    /\ roots \in RootLists(tree)
    /\ expanded = NotCalled
    /\ reexpanded = NotCalled
    /\ IdleMarshal
    /\ IdleWire

NextDeps ==
    \/ ExpandDependencies
    \/ ReExpandDependencies

SpecDeps == InitDeps /\ [][NextDeps]_vars

\* No Output, Apply, All or await of the futures part is in play.
IdleFutures ==
    /\ cell = [c \in Cells |-> Absent]
    /\ pc = [n \in ApplyCells \cup {"all"} |-> "idle"]
    /\ fk = [n \in ApplyCells |-> [fn |-> "inc", kind |-> "plain"]]
    /\ calls = [n \in ApplyCells |-> << >>]
    /\ got = {}
    /\ aw = [a \in Awaiters |-> Idle]
    /\ fatal = FALSE

\* No expandDependencies call of the aggregator part is in play.
IdleDeps ==
    /\ roots = << >>
    /\ expanded = NotCalled
    /\ reexpanded = NotCalled

\* One input marshaled once, by marshalInputOptions or by
\* marshalInputsOptions, under every marshalOptions.
InitMarshal ==
    /\ IdleFutures
    /\ IdleDeps
    /\ tree \in MarshalTrees
    /\ input \in Inputs
    /\ options \in MarshalOptions
    /\ marshaled = NotMarshaled
    /\ IdleWire

NextMarshal ==
    \/ MarshalInput
    \/ MarshalInputs

SpecMarshal == InitMarshal /\ [][NextMarshal]_vars

\* Unmarshaling: any wire value into any destination, nothing registered.
InitUnmarshal ==
    /\ IdleFutures
    /\ IdleDeps
    /\ tree = NoTree
    /\ IdleMarshal
    /\ wire \in Wires
    /\ dest \in Dests
    /\ unmarshaled = NotUnmarshaled
    /\ registry = EmptyRegistry
    /\ loaded = NotLoaded
    /\ IdleLocks

NextUnmarshal ==
    \/ UnmarshalPropertyValue
    \/ UnmarshalOutput

SpecUnmarshal == InitUnmarshal /\ [][NextUnmarshal]_vars

\* Resolving a reference after at most MaxRegs registrations.
InitResolve ==
    /\ IdleFutures
    /\ IdleDeps
    /\ tree = NoTree
    /\ IdleMarshal
    /\ wire \in References
    /\ dest = TAny
    /\ unmarshaled = NotUnmarshaled
    /\ registry = EmptyRegistry
    /\ loaded = NotLoaded
    /\ IdleLocks

\* The registries: at most MaxRegs registrations, then one lookup.
InitRegistry ==
    /\ IdleFutures
    /\ IdleDeps
    /\ tree = NoTree
    /\ IdleMarshal
    /\ IdleWire

Constructors == {Versioned(v, c) : v \in Versions, c \in {"ok", "err"}}

NextResolve ==
    \/ \E pkg \in Packages, value \in Constructors : RegisterResourcePackage(pkg, value)
    \/ \E key \in ModuleKeys, value \in Constructors : RegisterResourceModule(key, value)
    \/ UnmarshalResourceReference

SpecResolve == InitResolve /\ [][NextResolve]_vars

\* The entries registered when the registries alone are exercised: the
\* versions above, a third one of major version 1, and an entry whose
\* version is the zero value of semver.Version.
Entries == {Versioned(v, "ok") : v \in Versions \cup {<<1, 1, 0>>, nullVersion}}

NextRegistry ==
    \/ \E pkg \in Packages, value \in Entries : RegisterResourcePackage(pkg, value)
    \/ \E key \in ModuleKeys, value \in Entries : RegisterResourceModule(key, value)
    \/ \E which \in DOMAIN LookupKeys, key \in Packages \cup {"gcp"} \cup ModuleKeys,
          version \in LookupVersions :
            key \in LookupKeys[which] /\ LoadVersion(which, key, version)

SpecRegistry == InitRegistry /\ [][NextRegistry]_vars

\* NumProcs goroutines, each with one call on the package registry.
InitLocked ==
    /\ IdleFutures
    /\ IdleDeps
    /\ tree = NoTree
    /\ IdleMarshal
    /\ wire = NullProperty
    /\ dest = TAny
    /\ unmarshaled = NotUnmarshaled
    /\ registry = EmptyRegistry
    /\ loaded = NotLoaded
    /\ mu = NoLock
    /\ procs \in [Procs -> Calls]

NextLocked ==
    \E g \in Procs :
        \/ Lock(g)
        \/ StoreCheck(g)
        \/ StoreAppend(g)
        \/ Unlock(g)
        \/ RLock(g)
        \/ LoadRange(g)
        \/ LoadScan(g)
        \/ RUnlock(g)

SpecLocked == InitLocked /\ [][NextLocked]_vars

\* Round trips: a property map is unmarshaled and the result marshaled, or
\* inputs are marshaled and the properties unmarshaled.
InitRoundTrip ==
    /\ IdleFutures
    /\ IdleDeps
    /\ options \in MarshalOptions
    /\ marshaled = NotMarshaled
    /\ dest = TAny
    /\ unmarshaled = NotUnmarshaled
    /\ registry = EmptyRegistry
    /\ loaded = NotLoaded
    /\ IdleLocks
    /\ \/ /\ wire \in PropertyMaps
          /\ tree = NoTree
          /\ input = GoNil("interface")
       \/ /\ wire = NullProperty
          /\ tree \in {t \in MarshalTrees :
                          \A n \in t.nodes : t.urnSt[n] = "ok" /\ t.idSt[n] = "ok"}
          /\ input \in {v \in Inputs : v.k \in {"map", "struct"}}

NextRoundTrip ==
    \/ UnmarshalPropertyMap
    \/ PassUnmarshaled
    \/ MarshalInputs
    \/ UnmarshalMarshaled

SpecRoundTrip == InitRoundTrip /\ [][NextRoundTrip]_vars

(***************************************************************************)
(* Properties of the future cell.                                          *)
(***************************************************************************)
In(n) == cell[ApplyInput[n]]

\* C1: a cell is settled exactly once: once settled its tuple never changes,
\* every await that returned holds the tuple the cell has, and a second
\* resolve or reject is a fatal assertion that leaves every cell as it was.
C1_SettledOnce ==
    /\ [](\A a \in Awaiters : aw[a].st = "returned" =>
             IsSettled(aw[a].on) /\ aw[a].ret = await(aw[a].on))
    /\ [][\A c \in Cells : IsSettled(c) => cell'[c] = cell[c]]_vars
    /\ [][SettleAgain(Produced) => fatal' /\ cell' = cell]_vars

\* Two awaits of out returned, then a producer settled out a second time.
C1_Witness ==
    /\ fatal
    /\ cell["out"] = Resolved(<<1>>, TRUE, TRUE, {"r1"})
    /\ \A a \in Awaiters :
          aw[a] = [st |-> "returned", on |-> "out",
                   ret |-> <<(<<1>>), TRUE, TRUE, {"r1"}, NoErr>>]

\* C2: if o resolves known and f returns a plain value, Apply(o, f) invokes f
\* exactly once, with o's value, and the result resolves known with f(value(o))
\* and no error; the chain Apply(Apply(o, f), g) yields g(f(value(o))).
C2_ApplyKnown ==
    /\ \A n \in ApplyCells : Len(calls[n]) <= 1
    /\ \A n \in ApplyCells :
          (pc[n] = "done" /\ In(n).st = "resolved" /\ In(n).known
             /\ fk[n].kind = "plain") =>
          /\ calls[n] = <<In(n).value>>
          /\ cell[n].st = "resolved"
          /\ cell[n].known
          /\ cell[n].err = NoErr
          /\ cell[n].value = F(fk[n].fn, In(n).value)
    /\ (pc["app"] = "done" /\ pc["app2"] = "done" /\ cell["out"].st = "resolved"
          /\ cell["out"].known /\ fk["app"].kind = "plain" /\ fk["app2"].kind = "plain") =>
          /\ cell["app2"].known
          /\ cell["app2"].value = F(fk["app2"].fn, F(fk["app"].fn, cell["out"].value))

\* out = 2, app = out.ApplyT(inc) = 3, app2 = app.ApplyT(dbl) = 6.
C2_Witness ==
    /\ cell["out"].value = <<2>>
    /\ fk["app"] = [fn |-> "inc", kind |-> "plain"]
    /\ fk["app2"] = [fn |-> "dbl", kind |-> "plain"]
    /\ calls["app"] = <<(<<2>>)>>
    /\ calls["app2"] = <<(<<3>>)>>
    /\ cell["app2"].st = "resolved"
    /\ cell["app2"].value = <<6>>

\* C3: if o resolves with known = false, Apply(o, f) never invokes f and the
\* result resolves with known = false, no error, and o's secret flag and
\* dependency set.
C3_ApplyUnknown ==
    \A n \in ApplyCells :
        (In(n).st = "resolved" /\ ~In(n).known) =>
        /\ calls[n] = << >>
        /\ pc[n] = "done" =>
              /\ cell[n].st = "resolved"
              /\ ~cell[n].known
              /\ cell[n].err = NoErr
              /\ cell[n].secret = In(n).secret
              /\ cell[n].deps = In(n).deps

C3_Witness ==
    /\ cell["out"] = Resolved(Nil, FALSE, TRUE, {"r1", "r2"})
    /\ pc["app"] = "done"
    /\ cell["app"] = Resolved(Nil, FALSE, TRUE, {"r1", "r2"})
    /\ pc["app2"] = "done"
    /\ calls["app"] = << >>

\* C4: if o is rejected with e, Apply(o, f) never invokes f and the result
\* rejects with e (nil value); if o resolves known and f returns an error,
\* the result rejects with f's error.
C4_ApplyRejected ==
    \A n \in ApplyCells :
        /\ In(n).st = "rejected" =>
              /\ calls[n] = << >>
              /\ pc[n] = "done" =>
                    /\ cell[n].st = "rejected"
                    /\ cell[n].err = In(n).err
                    /\ cell[n].value = Nil
        /\ (pc[n] = "done" /\ In(n).st = "resolved" /\ In(n).known
              /\ fk[n].kind = "error") =>
              /\ cell[n].st = "rejected"
              /\ cell[n].err = CallbackErr
              /\ cell[n].value = Nil

\* out rejected with bang flows through app and app2 without a call.
C4_Witness ==
    /\ cell["out"] = Rejected("bang")
    /\ cell["app"] = Rejected("bang")
    /\ cell["app2"] = Rejected("bang")
    /\ calls["app"] = << >>
    /\ calls["app2"] = << >>

\* The callback of app ran and returned the Output other.
ReturnedOutput ==
    /\ fk["app"].kind = "output"
    /\ pc["app"] \in {"flatten", "done"}
    /\ cell["out"].st = "resolved"
    /\ cell["out"].known

\* The parts of C5 that do not concern secret and dependencies: the result
\* is unresolved until the inner Output settles, then takes its value and
\* known flag or its error, and no settled Output holds an Output as value.
NeverNested ==
    /\ \A c \in Cells : cell[c].value # OutputRef
    /\ ReturnedOutput =>
          /\ calls["app"] = <<cell["out"].value>>
          /\ pc["app"] = "flatten" => cell["app"].st = "pending"
          /\ pc["app"] = "done" =>
                /\ IsSettled("other")
                /\ cell["app"].st = cell["other"].st
                /\ cell["app"].value = cell["other"].value
                /\ cell["app"].known = cell["other"].known
                /\ cell["app"].err = cell["other"].err

InputCells == {AllInputs[i] : i \in AllIdx}
RejectedInputs == {c \in InputCells : cell[c].st = "rejected"}

\* C6: when no input rejects, in whatever order the inputs settle, the join
\* is known iff every input is known, secret iff some input is secret, its
\* dependencies are the union of the inputs' dependencies and, when known,
\* its value is the sequence of the inputs' values in argument order.
C6_AllComposes ==
    (pc["all"] = "done" /\ RejectedInputs = {}) =>
        /\ cell["all"].st = "resolved"
        /\ cell["all"].known =
              (cell["out"].known /\ cell["out2"].known /\ cell["app"].known)
        /\ cell["all"].secret =
              (cell["out"].secret \/ cell["out2"].secret \/ cell["app"].secret)
        /\ cell["all"].deps =
              cell["out"].deps \cup cell["out2"].deps \cup cell["app"].deps
        /\ cell["all"].known =>
              cell["all"].value =
                 <<cell["out"].value[1], cell["out2"].value[1], cell["app"].value[1]>>

\* out = 1, out2 = 2 (secret), app = out.ApplyT(inc): All(out, out2, app) = [1, 2, 2].
C6_Witness ==
    /\ cell["out"] = Resolved(<<1>>, TRUE, FALSE, {"r1"})
    /\ cell["out2"] = Resolved(<<2>>, TRUE, TRUE, {"r2"})
    /\ fk["app"] = [fn |-> "inc", kind |-> "plain"]
    /\ cell["all"] = Resolved(<<1, 2, 2>>, TRUE, TRUE, {"r1", "r2"})

\* C7: if an input of All rejects, the join never resolves: once it is done
\* it is rejected, and the error of a rejected join is the error of one of
\* the rejected inputs.
C7_AllRejects ==
    /\ cell["all"].st = "resolved" => RejectedInputs = {}
    /\ (pc["all"] = "done" /\ RejectedInputs # {}) => cell["all"].st = "rejected"
    /\ cell["all"].st = "rejected" =>
          cell["all"].err \in {cell[c].err : c \in RejectedInputs}

\* Two inputs rejected with different errors; the join took the second's.
C7_Witness ==
    /\ cell["out"] = Rejected("boom")
    /\ cell["out2"] = Rejected("bang")
    /\ cell["all"] = Rejected("bang")

\* C8: an await returns only on a settled cell, and under fairness (every
\* producer settles its Output, every task and awaiting context is
\* scheduled) every Output that exists is eventually settled and every
\* await eventually returns.
C8_AwaitLiveness ==
    /\ [](\A a \in Awaiters : aw[a].st = "returned" => IsSettled(aw[a].on))
    /\ [][\A a \in Awaiters :
            (aw[a].st = "waiting" /\ aw'[a].st = "returned") => IsSettled(aw[a].on)]_vars
    /\ \A c \in Cells : (cell[c].st = "pending") ~> IsSettled(c)
    /\ \A a \in Awaiters : (aw[a].st = "waiting") ~> (aw[a].st = "returned")

\* The callback of app returned an Output settled by another producer, and
\* awaits of app2 and of all returned.
C8_Witness ==
    /\ ReturnedOutput
    /\ pc["app"] = "done"
    /\ aw[1].st = "returned" /\ aw[1].on = "app2"
    /\ aw[2].st = "returned" /\ aw[2].on = "all"

(***************************************************************************)
(* Properties of the dependency aggregator.                                *)
(***************************************************************************)
ChildrenOf(t, p) == {t.children[p][i] : i \in DOMAIN t.children[p]}

\* n is r, or n hangs below r through LocalComponent ancestors only.
RECURSIVE UnderLocals(_, _, _)
UnderLocals(t, n, r) ==
    \/ n = r
    \/ \E p \in t.nodes :
          /\ n \in ChildrenOf(t, p)
          /\ t.kind[p] = "LocalComponent"
          /\ UnderLocals(t, p, r)

ExposedCustoms(t, rs) ==
    {n \in t.nodes : /\ t.kind[n] = "Custom"
                     /\ \E i \in DOMAIN rs : UnderLocals(t, n, rs[i])}

ExpandedURNs == DOMAIN expanded.deps

\* C9: over trees of Custom and LocalComponent resources only (whose URNs
\* resolve), expandDependencies(roots) returns exactly the URNs of the Custom
\* resources that are a root or hang below a root through LocalComponent
\* ancestors only, each URN mapped to the resource that has it; for
\* C(Local)[A(Custom), D(Local)[B(Custom), E(Custom)]] and roots [C] that is
\* {URN(A), URN(B), URN(E)}.
C9_LocalAggregation ==
    (/\ expanded.st = "returned"
     /\ tree.urnErr = {}
     /\ \A n \in tree.nodes : tree.kind[n] \in {"Custom", "LocalComponent"}) =>
        /\ expanded.err = NoErr
        /\ ExpandedURNs = {urnOf[n] : n \in ExposedCustoms(tree, roots)}
        /\ \A u \in ExpandedURNs : urnOf[expanded.deps[u]] = u
        /\ (/\ tree.children = LocalShape
            /\ tree.kind = [C |-> "LocalComponent", A |-> "Custom", D |-> "LocalComponent",
                            B |-> "Custom", E |-> "Custom"]
            /\ roots = <<"C">>) => ExpandedURNs = {"urn:A", "urn:B", "urn:E"}

\* expandDependencies([C]) returned for C(Local)[A(Custom), D(Local)[B(Custom), E(Custom)]].
C9_Witness ==
    /\ expanded.st = "returned"
    /\ tree.children = LocalShape
    /\ tree.kind = [C |-> "LocalComponent", A |-> "Custom", D |-> "LocalComponent",
                    B |-> "Custom", E |-> "Custom"]
    /\ roots = <<"C">>
    /\ expanded.deps = [u \in {"urn:A", "urn:B", "urn:E"} |->
                          IF u = "urn:A" THEN "A" ELSE IF u = "urn:B" THEN "B" ELSE "E"]

\* C10: for Comp1[Cust1, Comp2[Cust2[Cust4], Cust3], Remote1[Comp3[Cust5]]]
\* the resources reachable from Comp1 are exactly Cust1, Cust2, Cust3 and
\* Remote1: a remote component is opaque, its descendants Comp3 and Cust5 are
\* not in the result.
C10_RemoteOpaque ==
    (expanded.st = "returned" /\ tree = DocTree /\ roots = <<"Comp1">>) =>
        ExpandedURNs = {"urn:Cust1", "urn:Cust2", "urn:Cust3", "urn:Remote1"}

\* C11: dependency aggregation is idempotent: for every list of roots over
\* every mix of resource variants, expandDependencies applied to the
\* resources of the map that expandDependencies(roots) returned, listed in
\* any order, returns the same URN set (and no error).
C11_Idempotent ==
    reexpanded.st = "returned" =>
        /\ DOMAIN reexpanded.deps = ExpandedURNs
        /\ expanded.err = NoErr => reexpanded.err = NoErr

\* The second pass returned for roots [Y, X] of R[X, Y[Z]] with Y a remote
\* component: the first pass returned X, Z and Y.
C11_Witness ==
    /\ reexpanded.st = "returned"
    /\ tree.children = MixedShape
    /\ tree.kind["Y"] = "RemoteComponent" /\ tree.kind["X"] = "Custom"
    /\ tree.kind["Z"] = "Custom"
    /\ roots = <<"Y", "X">>
    /\ ExpandedURNs = {"urn:X", "urn:Y", "urn:Z"}
    /\ DOMAIN reexpanded.deps = {"urn:X", "urn:Y", "urn:Z"}

(***************************************************************************)
(* Properties of marshaling.                                               *)
(***************************************************************************)
Range(f) == {f[x] : x \in DOMAIN f}

MarshalInputReturned == marshaled.st = "returned" /\ marshaled.op = "marshalInput"
MarshalInputsReturned == marshaled.st = "returned" /\ marshaled.op = "marshalInputs"

\* C12: marshalInputOptions of an Output, without ErrorOnOutput and without
\* an error: when the awaited Output is known, not secret and has no
\* dependencies the result is the marshaled element itself (String("x") for
\* "x", Null for nil) and not a wire Output; in every other case it is a wire
\* Output with the known and secret flags of the awaited Output, whose element
\* is the marshaled value when known and Null when unknown.
C12_OutputInlinedOrWrapped ==
    (/\ MarshalInputReturned
     /\ marshaled.err = NoErr
     /\ input.k = "output"
     /\ ~options.ErrorOnOutput) =>
        LET a == input.res
            element == marshalInputOptionsImpl(tree, a.v, options, TRUE).v
        IN  IF a.known /\ ~a.secret /\ a.deps = << >>
            THEN /\ marshaled.v = element
                 /\ marshaled.v.k # "output"
                 /\ a.v = Str => marshaled.v = NewStringProperty("x")
                 /\ a.v = GoNil("interface") => marshaled.v = NullProperty
            ELSE /\ marshaled.v.k = "output"
                 /\ marshaled.v.known = a.known
                 /\ marshaled.v.secret = a.secret
                 /\ marshaled.v.element = IF a.known THEN element ELSE NullProperty
                 /\ (a.known /\ a.v = Str) => marshaled.v.element = NewStringProperty("x")

\* marshalInputOptions of a known Output of "x", not secret, no dependencies,
\* returned String("x").
C12_Witness ==
    /\ MarshalInputReturned
    /\ ~options.ErrorOnOutput
    /\ input = OutputOf(Awaited(Str, TRUE, FALSE, << >>))
    /\ marshaled.v = NewStringProperty("x")
    /\ marshaled.err = NoErr

\* v holds an Output where the marshaler looks: as the value itself, an array
\* element, a map value, a tagged struct field or an archive entry, at any
\* depth.
RECURSIVE HasOutput(_)
HasOutput(v) ==
    CASE v.k = "output" -> TRUE
      [] v.k = "ptr" -> HasOutput(v.v)
      [] v.k = "slice" -> \E i \in DOMAIN v.elems : HasOutput(v.elems[i])
      [] v.k = "map" -> \E i \in DOMAIN v.entries : HasOutput(v.entries[i].v)
      [] v.k = "struct" ->
           \E i \in DOMAIN v.fields : v.fields[i].tag # "" /\ HasOutput(v.fields[i].v)
      [] v.k = "archive" -> \E i \in DOMAIN v.assets : HasOutput(v.assets[i].v)
      [] OTHER -> FALSE

\* The Go types of the Outputs of v.
RECURSIVE OutputTypes(_)
OutputTypes(v) ==
    CASE v.k = "output" -> {v.typ}
      [] v.k = "ptr" -> OutputTypes(v.v)
      [] v.k = "slice" -> UNION {OutputTypes(v.elems[i]) : i \in DOMAIN v.elems}
      [] v.k = "map" -> UNION {OutputTypes(v.entries[i].v) : i \in DOMAIN v.entries}
      [] v.k = "struct" -> UNION {OutputTypes(v.fields[i].v) : i \in DOMAIN v.fields}
      [] v.k = "archive" -> UNION {OutputTypes(v.assets[i].v) : i \in DOMAIN v.assets}
      [] OTHER -> {}

\* Every URN and ID of the tree is known and not secret.
TreeOK == \A n \in tree.nodes : tree.urnSt[n] = "ok" /\ tree.idSt[n] = "ok"

\* Nothing but an Output under ErrorOnOutput makes marshaling v fail: no
\* invalid asset or archive, no unsupported kind, no map with other than
\* string keys, no Output of the wrong element type and, where Outputs are
\* awaited, no rejected Output.
RECURSIVE Marshalable(_)
Marshalable(v) ==
    CASE v.k = "output" ->
           /\ v.conv # "mismatch"
           /\ options.ErrorOnOutput \/ (v.res.err = NoErr /\ Marshalable(v.res.v))
      [] v.k = "ptr" -> Marshalable(v.v)
      [] v.k = "slice" -> \A i \in DOMAIN v.elems : Marshalable(v.elems[i])
      [] v.k = "map" ->
           v.keyKind = "string" /\ \A i \in DOMAIN v.entries : Marshalable(v.entries[i].v)
      [] v.k = "struct" ->
           \A i \in DOMAIN v.fields : v.fields[i].tag # "" => Marshalable(v.fields[i].v)
      [] v.k = "archive" ->
           ~v.invalid /\ \A i \in DOMAIN v.assets : Marshalable(v.assets[i].v)
      [] v.k = "asset" -> ~v.invalid
      [] v.k = "func" -> FALSE
      [] OTHER -> TRUE

\* marshalInputsOptions takes a struct, a map or a pointer to one.
IsProps(v) ==
    \/ v.k \in {"nil", "struct", "map"}
    \/ v.k = "ptr" /\ v.v.k \in {"struct", "map"}

\* The explicit errors that name the type of an Output of the input, as
\* returned by marshalInputOptions and as wrapped by marshalInputsOptions.
CannotAwaitErrors ==
    LET errs == {cannotAwaitFmt(typ) : typ \in OutputTypes(input)}
    IN  errs \cup {awaitingInputProperty(p, e) : p \in {"a", "b", "1"}, e \in errs}

\* C13: with ErrorOnOutput, marshaling an input that holds an Output at any
\* depth (the value itself, an array element, a map value, a tagged struct
\* field, an archive entry) never succeeds and never awaits an Output, and
\* when nothing else in the input fails the error is the explicit one that
\* names the Output's type; without ErrorOnOutput no such error is returned,
\* and an input in which nothing else fails marshals without error.
C13_ErrorOnOutput ==
    marshaled.st # "none" =>
        /\ options.ErrorOnOutput =>
              /\ marshaled.awaited = {}
              /\ HasOutput(input) => marshaled.err # NoErr
              /\ (/\ HasOutput(input) /\ Marshalable(input) /\ TreeOK
                  /\ marshaled.op = "marshalInputs" => IsProps(input))
                 => marshaled.err \in CannotAwaitErrors
        /\ ~options.ErrorOnOutput =>
              /\ marshaled.err \notin CannotAwaitErrors
              /\ (/\ Marshalable(input) /\ TreeOK
                  /\ marshaled.op = "marshalInputs" => IsProps(input))
                 => marshaled.err = NoErr

\* marshalInputOptions with ErrorOnOutput of a struct whose field a is a map
\* whose entry b is a slice holding an unknown Output: the error names
\* AnyOutput and the Output was not awaited.
C13_Witness ==
    /\ MarshalInputReturned
    /\ options.ErrorOnOutput
    /\ input = GoStruct(<<Field("a", GoMap("string",
                                           <<Entry("b", GoSlice(<<UnknownOutput>>))>>))>>)
    /\ marshaled.err = cannotAwaitFmt("AnyOutput")
    /\ marshaled.awaited = {}

\* C13 as stated: with ErrorOnOutput, marshaling any input that holds an
\* Output returns the explicit error that names the Output's type.
C13_AlwaysNamesOutput ==
    (/\ marshaled.st # "none"
     /\ options.ErrorOnOutput
     /\ HasOutput(input)
     /\ marshaled.op = "marshalInputs" => IsProps(input))
    => marshaled.err \in CannotAwaitErrors

\* The URNs of the ResourceReferences of a wire value.
RECURSIVE RefsIn(_)
RefsIn(pv) ==
    CASE pv.k = "resource" -> {pv.urn}
      [] pv.k = "array" -> UNION {RefsIn(pv.elems[i]) : i \in DOMAIN pv.elems}
      [] pv.k = "object" -> UNION {RefsIn(pv.obj[key]) : key \in DOMAIN pv.obj}
      [] pv.k = "archive" -> UNION {RefsIn(pv.assets[key]) : key \in DOMAIN pv.assets}
      [] pv.k \in {"output", "secret"} -> RefsIn(pv.element)
      [] OTHER -> {}

\* C14: unless ExcludeResourceRefsFromDeps is set, every resource that
\* marshalInputOptions turned into a ResourceReference, wherever it sits in
\* the input (directly, in arrays, maps or structs, or as the resolved value
\* of a known Output), is in the returned dependency list; with the option
\* set a plain Resource is still marshaled as a ResourceReference and
\* contributes no dependency.
C14_ReferencesAreDependencies ==
    (MarshalInputReturned /\ marshaled.err = NoErr) =>
        /\ ~options.ExcludeResourceRefsFromDeps =>
              \A urn \in RefsIn(marshaled.v) :
                  \E i \in DOMAIN marshaled.deps : urnOf[marshaled.deps[i]] = urn
        /\ (options.ExcludeResourceRefsFromDeps /\ input.k = "resource") =>
              /\ marshaled.v.k = "resource"
              /\ marshaled.v.urn = urnOf[input.r]
              /\ marshaled.deps = << >>

\* The URNs of the dependencies of the wire Outputs of a wire value.
RECURSIVE OutputDepsIn(_)
OutputDepsIn(pv) ==
    CASE pv.k = "output" -> Range(pv.dependencies) \cup OutputDepsIn(pv.element)
      [] pv.k = "secret" -> OutputDepsIn(pv.element)
      [] pv.k = "array" -> UNION {OutputDepsIn(pv.elems[i]) : i \in DOMAIN pv.elems}
      [] pv.k = "object" -> UNION {OutputDepsIn(pv.obj[key]) : key \in DOMAIN pv.obj}
      [] pv.k = "archive" -> UNION {OutputDepsIn(pv.assets[key]) : key \in DOMAIN pv.assets}
      [] OTHER -> {}

\* The ResourceReferences of a wire value.
RECURSIVE ReferencesIn(_)
ReferencesIn(pv) ==
    CASE pv.k = "resource" -> {pv}
      [] pv.k = "array" -> UNION {ReferencesIn(pv.elems[i]) : i \in DOMAIN pv.elems}
      [] pv.k = "object" -> UNION {ReferencesIn(pv.obj[key]) : key \in DOMAIN pv.obj}
      [] pv.k = "archive" -> UNION {ReferencesIn(pv.assets[key]) : key \in DOMAIN pv.assets}
      [] pv.k \in {"output", "secret"} -> ReferencesIn(pv.element)
      [] OTHER -> {}

\* What a marshal call produced: the wire values, and the URNs of every
\* dependency set (of wire Outputs, of properties, of the whole).
ProducedValues == {marshaled.v} \cup Range(marshaled.pmap)
ProducedDependencies ==
    UNION {OutputDepsIn(pv) : pv \in ProducedValues}
        \cup marshaled.urns \cup UNION Range(marshaled.pdeps)
ProducedReferences == UNION {ReferencesIn(pv) : pv \in ProducedValues}

\* C15: every dependency set and every ResourceReference that marshaling
\* produces comes from resources whose URN is known and not secret, and a
\* custom resource's reference from an ID that is known and not secret;
\* otherwise the operation aborts and produces nothing.
C15_KnownPublicURNs ==
    (marshaled.st = "returned" /\ marshaled.err = NoErr) =>
        /\ \A urn \in ProducedDependencies :
              \E n \in tree.nodes : urnOf[n] = urn /\ tree.urnSt[n] = "ok"
        /\ \A ref \in ProducedReferences :
              \E n \in tree.nodes :
                  /\ urnOf[n] = ref.urn /\ tree.urnSt[n] = "ok"
                  /\ ref.hasID => (ref.id = idOf[n] /\ tree.idSt[n] = "ok")

\* The tags of the tagged fields of a struct whose marshaled value is not Null.
NonNullTags(fields) ==
    {fields[i].tag : i \in {j \in DOMAIN fields :
        /\ fields[j].tag # ""
        /\ ~IsNull(marshalInputOptions(tree, fields[j].v, options).v)}}

\* nil, a nil pointer, a nil slice or a nil map.
IsNilValue(v) == v.k = "nil" \/ (v.k \in {"slice", "map"} /\ v.isNil)

StructOf(v) == IF v.k = "ptr" THEN v.v ELSE v

\* C16: marshaling a struct (by marshalInputsOptions into a PropertyMap, by
\* marshalInputOptions into an Object) omits every untagged field and every
\* tagged field whose marshaled value is Null (nil, nil pointer, nil slice,
\* nil map), and has every other tagged field under its tag; {A *int "a"}
\* with A = nil gives the empty PropertyMap, {A string "a"} with A = "x"
\* gives {"a": String("x")} and no dependency.
C16_SparseStruct ==
    (/\ marshaled.st = "returned" /\ marshaled.err = NoErr
     /\ StructOf(input).k = "struct") =>
        LET fields == StructOf(input).fields
            object == IF marshaled.op = "marshalInputs" THEN marshaled.pmap
                      ELSE marshaled.v.obj
        IN  /\ marshaled.op = "marshalInput" => marshaled.v.k = "object"
            /\ DOMAIN object = NonNullTags(fields)
            /\ \A i \in DOMAIN fields :
                  /\ fields[i].tag = "" => "" \notin DOMAIN object
                  /\ IsNilValue(fields[i].v) => fields[i].tag \notin DOMAIN object
                  /\ fields[i].tag \in DOMAIN object =>
                        object[fields[i].tag] =
                            marshalInputOptions(tree, fields[i].v, options).v
            /\ fields = <<Field("a", GoNil("ptr"))>> =>
                  object = << >> /\ marshaled.urns = {}
            /\ fields = <<Field("a", Str)>> =>
                  /\ object = [a |-> NewStringProperty("x")]
                  /\ marshaled.urns = {} /\ marshaled.deps = << >>
                  /\ marshaled.op = "marshalInputs" => marshaled.pdeps = [a |-> {}]

\* marshalInputsOptions of {A *int "a"; B string "b"} with A = nil and
\* B = "x" returned {"b": String("x")}.
C16_Witness ==
    /\ MarshalInputsReturned
    /\ input = GoStruct(<<Field("a", GoNil("ptr")), Field("b", Str)>>)
    /\ marshaled.pmap = [b |-> NewStringProperty("x")]
    /\ marshaled.err = NoErr

\* A wire value holds, at some depth, a Secret or a wire Output with
\* secret = true.
RECURSIVE ContainsSecret(_)
ContainsSecret(pv) ==
    CASE pv.k = "secret" -> TRUE
      [] pv.k = "output" -> pv.secret \/ ContainsSecret(pv.element)
      [] pv.k = "array" -> \E i \in DOMAIN pv.elems : ContainsSecret(pv.elems[i])
      [] pv.k = "object" -> \E key \in DOMAIN pv.obj : ContainsSecret(pv.obj[key])
      [] pv.k = "archive" -> \E key \in DOMAIN pv.assets : ContainsSecret(pv.assets[key])
      [] OTHER -> FALSE

\* C17: marshaling a struct with a secret Output field and a plain field
\* (without ErrorOnOutput, without error) carries the Output field as a wire
\* Output with secret = true, known or not, never as a plain value, so the
\* aggregate holds a secret; the plain field is marshaled as a plain value.
C17_SecretFieldVisible ==
    (/\ marshaled.st = "returned" /\ marshaled.err = NoErr
     /\ StructOf(input).k = "struct") =>
        LET fields == StructOf(input).fields
            object == IF marshaled.op = "marshalInputs" THEN marshaled.pmap
                      ELSE marshaled.v.obj
        IN  \A i \in DOMAIN fields :
              /\ (/\ fields[i].tag # ""
                  /\ fields[i].v.k = "output"
                  /\ fields[i].v.res.secret) =>
                    /\ fields[i].tag \in DOMAIN object
                    /\ object[fields[i].tag].k = "output"
                    /\ object[fields[i].tag].secret
                    /\ object[fields[i].tag].known = fields[i].v.res.known
                    /\ ContainsSecret(NewObjectProperty(object))
              /\ (fields[i].tag # "" /\ fields[i].v = Str) =>
                    object[fields[i].tag] = NewStringProperty("x")

\* marshalInputOptions of a struct whose field a is a secret Output of "x"
\* and whose field b is "x" returned {"a": Output("x", secret), "b": "x"}.
C17_Witness ==
    /\ MarshalInputReturned
    /\ input = GoPtr(GoStruct(<<Field("a", SecretOutput), Field("b", Str)>>))
    /\ marshaled.v = NewObjectProperty(
          [a |-> NewOutputProperty(NewStringProperty("x"), TRUE, TRUE, << >>),
           b |-> NewStringProperty("x")])

(***************************************************************************)
(* Properties of the unmarshaler.                                          *)
(***************************************************************************)
UnmarshalReturned(op) ==
    unmarshaled.st = "returned" /\ unmarshaled.op = op /\ unmarshaled.err = NoErr

\* C18: secrecy is OR-composed by unmarshaling: unmarshalPropertyValue, and
\* unmarshalOutput into an interface{} destination, report secret = true
\* whenever the wire value holds, at any depth, a Secret or a wire Output
\* with secret = true.
C18_SecretORComposed ==
    (/\ \/ UnmarshalReturned("unmarshalPropertyValue")
        \/ UnmarshalReturned("unmarshalOutput") /\ dest = TAny
     /\ ContainsSecret(wire))
        => unmarshaled.secret

\* C19: unmarshaling a wire Output propagates the secret flag of the wire
\* Output whether it is known or unknown; for an unknown Output
\* unmarshalPropertyValue returns nil and unmarshalOutput leaves the
\* destination at its zero value.
C19_OutputSecretPropagated ==
    (/\ wire.k = "output"
     /\ \/ UnmarshalReturned("unmarshalPropertyValue")
        \/ UnmarshalReturned("unmarshalOutput"))
        => /\ unmarshaled.secret = wire.secret
           /\ ~wire.known =>
                unmarshaled.v = IF unmarshaled.op = "unmarshalOutput" THEN Zero(dest)
                                ELSE GoNil("interface")

(***************************************************************************)
(* Properties of the resolution of resource references.                    *)
(***************************************************************************)
\* The version a reference asks for; nullVersion when it names none.
RefVersion == IF wire.version = "" THEN nullVersion ELSE ParseTolerant[wire.version].version
RefParses == wire.version = "" \/ ParseTolerant[wire.version].err = NoErr
RefIsProvider == typeOf[wire.urn].module = "pulumi:providers"
RefPackages == VersionsOf(registry.packages, typeOf[wire.urn].name)
RefModules == VersionsOf(registry.modules, typeOf[wire.urn].module)

\* A constructor is registered for the version: any constructor when the
\* version is the wildcard, else one of the same major version.
Registers(versions, e) ==
    /\ \E i \in DOMAIN versions : versions[i] = e
    /\ RefVersion = nullVersion \/ e.version[1] = RefVersion[1]
RegisteredFor(versions) == \E e \in Constructors : Registers(versions, e)

\* The result is that of a registered constructor: the one of exactly the
\* version asked for when there is one.
Constructed(via, versions) ==
    \E e \in Constructors :
        /\ Registers(versions, e)
        /\ hasVersion(versions, RefVersion) => e.version = RefVersion
        /\ IF e.ctor = "err"
           THEN unmarshaled.err = ConstructErr
           ELSE unmarshaled.err = NoErr
                    /\ unmarshaled.v = Handle(via, wire.urn, "", e.version)

DependencyOnly(vias) ==
    /\ unmarshaled.err = NoErr
    /\ \E via \in vias :
          unmarshaled.v = Handle(via, wire.urn, wire.id, nullVersion)

\* The module constructor, else a dependency-only custom resource (a
\* reference with an ID) or component (a reference without one).
ModuleElseDependency(customs) ==
    IF RegisteredFor(RefModules) THEN Constructed("module", RefModules)
    ELSE IF wire.hasID THEN DependencyOnly(customs)
    ELSE DependencyOnly({"dependency"})

Resolved2 == unmarshaled.st = "returned" /\ unmarshaled.op = "unmarshalResourceReference"

\* C20: resolving a reference never fails because no constructor is
\* registered.  A provider reference is resolved by the constructor
\* registered for its package, else as a dependency-only provider with the
\* reference's ID; any other reference by the constructor registered for its
\* module, else as a dependency-only custom resource when it carries an ID
\* and a dependency-only component when it does not.  The only error of the
\* resolution itself is that of a version that does not parse.
C20_ResolutionDegrades ==
    Resolved2 =>
        IF ~RefParses THEN unmarshaled.err = ParseErr(wire.version)
        ELSE /\ unmarshaled.err \in {NoErr, ConstructErr}
             /\ IF RefIsProvider
                THEN IF RegisteredFor(RefPackages) THEN Constructed("package", RefPackages)
                     ELSE DependencyOnly({"dependencyProvider"})
                ELSE ModuleElseDependency({"dependencyCustom"})

\* C20 as stated: a provider reference without a package constructor goes on
\* to the module constructor, then to a custom-resource handle (a provider
\* handle counts as one) when it carries an ID and to a component handle
\* when it does not.
C20_ModuleAfterPackage ==
    Resolved2 =>
        IF ~RefParses THEN unmarshaled.err = ParseErr(wire.version)
        ELSE /\ unmarshaled.err \in {NoErr, ConstructErr}
             /\ IF RefIsProvider /\ RegisteredFor(RefPackages)
                THEN Constructed("package", RefPackages)
                ELSE ModuleElseDependency({"dependencyCustom", "dependencyProvider"})

\* A provider reference without an ID is resolved while a constructor is
\* registered for the providers module but none for the provider's package
\* at the version asked for.
C20_Witness ==
    /\ Resolved2
    /\ RefParses
    /\ RefIsProvider
    /\ ~wire.hasID
    /\ RefPackages # << >>
    /\ ~RegisteredFor(RefPackages)
    /\ RegisteredFor(RefModules)
    /\ unmarshaled.v = Handle("dependencyProvider", wire.urn, "", nullVersion)

(***************************************************************************)
(* Further properties of the marshaler.                                    *)
(***************************************************************************)
\* v holds, where the marshaler looks, a value of unsupported shape: a map
\* whose keys are not strings, an invalid asset or archive, or a value of
\* unrecognized kind.
RECURSIVE Unsupported(_)
Unsupported(v) ==
    CASE v.k = "func" -> TRUE
      [] v.k = "asset" -> v.invalid
      [] v.k = "archive" ->
           v.invalid \/ \E i \in DOMAIN v.assets : Unsupported(v.assets[i].v)
      [] v.k = "map" ->
           v.keyKind # "string" \/ \E i \in DOMAIN v.entries : Unsupported(v.entries[i].v)
      [] v.k = "ptr" -> Unsupported(v.v)
      [] v.k = "slice" -> \E i \in DOMAIN v.elems : Unsupported(v.elems[i])
      [] v.k = "struct" ->
           \E i \in DOMAIN v.fields : v.fields[i].tag # "" /\ Unsupported(v.fields[i].v)
      [] OTHER -> FALSE

\* The call returned an error and nothing else.
OnlyAnError ==
    /\ marshaled.st = "returned"
    /\ marshaled.err # NoErr
    /\ marshaled.v = NullProperty /\ marshaled.deps = << >>
    /\ marshaled.pmap = << >> /\ marshaled.pdeps = << >> /\ marshaled.urns = {}

\* C24: an input of unsupported shape (a map whose keys are not strings, at
\* the top level or nested; a top-level input of marshalInputs that is
\* neither struct nor map; an invalid asset or archive; a value of
\* unrecognized kind) makes marshaling return an error, with no value, no
\* property map and no dependencies, and never abort.
C24_UnsupportedShapeReturned ==
    (/\ marshaled.st # "none"
     /\ TreeOK
     /\ \/ Unsupported(input)
        \/ marshaled.op = "marshalInputs" /\ ~IsProps(input))
        => OnlyAnError

\* The Outputs of the input whose wire value can be told apart in the result:
\* the input itself, or the elements of an input slice; each with the wire
\* value it was marshaled to.
MarshaledOutputs ==
    IF input.k = "output" THEN {<<input, marshaled.v>>}
    ELSE IF input.k = "slice" /\ marshaled.v.k = "array"
         THEN {<<input.elems[i], marshaled.v.elems[i]>> :
                  i \in {j \in DOMAIN input.elems : input.elems[j].k = "output"}}
    ELSE {}

\* C25: the dependency list of a wire Output that marshaling produced holds
\* exactly the URNs of the expansion of the awaited Output's own dependency
\* resources, in strictly ascending URN order (so without duplicates and
\* whatever the order of the Output's dependency list), and is empty exactly
\* when the expansion is.
C25_SortedExpansion ==
    (MarshalInputReturned /\ marshaled.err = NoErr) =>
        \A m \in MarshaledOutputs :
            m[2].k = "output" =>
                LET expansion == DOMAIN expandDependencies(tree, m[1].res.deps).deps
                    list == m[2].dependencies
                IN  /\ Range(list) = expansion
                    /\ \A i, j \in DOMAIN list : i < j => urnRank[list[i]] < urnRank[list[j]]
                    /\ list = << >> <=> expansion = {}

\* An Output depending on X and then on the remote component R that owns X
\* was marshaled to a wire Output depending on urn:R, urn:X in that order.
C25_Witness ==
    /\ MarshalInputReturned
    /\ input.k = "output"
    /\ input.res.deps = <<"X", "R">>
    /\ marshaled.v.k = "output"
    /\ marshaled.v.dependencies = <<"urn:R", "urn:X">>

\* The properties of the input of marshalInputs: the tagged fields of a
\* struct or the entries of a map, as <<name, value>>.
PropertiesOf(v) ==
    LET pv == StructOf(v)
    IN  CASE pv.k = "struct" ->
               {<<pv.fields[i].tag, pv.fields[i].v>> :
                    i \in {j \in DOMAIN pv.fields : pv.fields[j].tag # ""}}
          [] pv.k = "map" ->
               {<<pv.entries[i].key, pv.entries[i].v>> : i \in DOMAIN pv.entries}
          [] OTHER -> {}

\* C26: after a successful marshalInputs the per-property dependency map has
\* the keys of the PropertyMap; a property is present iff its marshaled value
\* is not Null or its expanded dependency set is not empty; a present
\* property holds its marshaled value and exactly the URNs of its expanded
\* dependencies; the aggregate dependencies are the union of the
\* per-property ones.
C26_PerPropertyDependencies ==
    (MarshalInputsReturned /\ marshaled.err = NoErr) =>
        /\ DOMAIN marshaled.pdeps = DOMAIN marshaled.pmap
        /\ DOMAIN marshaled.pmap \subseteq {p[1] : p \in PropertiesOf(input)}
        /\ \A p \in PropertiesOf(input) :
              LET r == marshalInputOptions(tree, p[2], options)
                  expansion == DOMAIN expandDependencies(tree, r.deps).deps
              IN  /\ p[1] \in DOMAIN marshaled.pmap <=> (~IsNull(r.v) \/ expansion # {})
                  /\ p[1] \in DOMAIN marshaled.pmap =>
                        /\ marshaled.pmap[p[1]] = r.v
                        /\ marshaled.pdeps[p[1]] = expansion
        /\ marshaled.urns = UNION Range(marshaled.pdeps)

\* marshalInputs of {a: an unknown Output depending on the remote component
\* R, b: "x"} returned the properties a and b, a depending on urn:R and
\* urn:X and b on nothing.
C26_Witness ==
    /\ MarshalInputsReturned
    /\ marshaled.err = NoErr
    /\ input = GoStruct(<<Field("a", UnknownOutput), Field("b", Str)>>)
    /\ marshaled.pdeps = [a |-> {"urn:R", "urn:X"}, b |-> {}]
    /\ marshaled.urns = {"urn:R", "urn:X"}

(***************************************************************************)
(* Further properties of the unmarshaler.                                  *)
(***************************************************************************)
\* The keys of a Go map.
MapKeys(m) == {m.entries[i].key : i \in DOMAIN m.entries}
MapValue(m, key) == m.entries[CHOOSE i \in DOMAIN m.entries : m.entries[i].key = key].v

\* C30: when a wire Object is unmarshaled into a map, by unmarshalOutput into
\* a map[string]T or an interface{} destination or by unmarshalPropertyValue,
\* the map has exactly the keys of the Object that are not internal, each
\* with its unmarshaled value.
C30_InternalKeysSkipped ==
    (/\ wire.k = "object"
     /\ \/ UnmarshalReturned("unmarshalPropertyValue")
        \/ UnmarshalReturned("unmarshalOutput") /\ dest.k \in {"map", "any"})
        => /\ unmarshaled.v.k = "map"
           /\ MapKeys(unmarshaled.v) =
                 {key \in DOMAIN wire.obj : ~IsInternalPropertyKey(key)}
           /\ \A key \in MapKeys(unmarshaled.v) :
                 MapValue(unmarshaled.v, key) =
                     IF unmarshaled.op = "unmarshalOutput" /\ dest.k = "map"
                     THEN unmarshalOutput(registry, wire.obj[key], dest.elem).v
                     ELSE unmarshalPropertyValue(registry, wire.obj[key]).v

(***************************************************************************)
(* Properties of the versioned registries.                                 *)
(***************************************************************************)
\* No key holds two entries of equal version.
DistinctVersions(vm) ==
    \A key \in DOMAIN vm :
        \A i, j \in DOMAIN vm[key] : vm[key][i].version = vm[key][j].version => i = j
NoDuplicateVersions == DistinctVersions(registry.packages) /\ DistinctVersions(registry.modules)

\* What registering value under key does to a registry, from before to
\* after: with an entry of the same version under the key it fails and
\* nothing changes; else it succeeds, the key holds one entry more, the
\* value, at the end, and no other key changes.
Registration(before, after, key, value) ==
    IF key \in DOMAIN before
        /\ \E i \in DOMAIN before[key] : before[key][i].version = value.version
    THEN fatal' /\ after = before
    ELSE /\ ~fatal'
         /\ DOMAIN after = DOMAIN before \cup {key}
         /\ after[key] = (IF key \in DOMAIN before THEN before[key] ELSE << >>) \o <<value>>
         /\ \A other \in DOMAIN before \ {key} : after[other] = before[other]

RegistrationStep ==
    /\ \A pkg \in Packages, value \in Entries :
          RegisterResourcePackage(pkg, value) =>
              /\ Registration(registry.packages, registry'.packages, pkg, value)
              /\ registry'.modules = registry.modules
    /\ \A key \in ModuleKeys, value \in Entries :
          RegisterResourceModule(key, value) =>
              /\ Registration(registry.modules, registry'.modules, key, value)
              /\ registry'.packages = registry.packages

\* C21: a registration fails if an entry of the same version is registered
\* under the key, and then leaves the registries unchanged; else it appends
\* exactly one entry under the key and changes no other key.  Hence no key
\* ever holds two entries of equal version.
C21_DuplicateRegistrationFails == []NoDuplicateVersions /\ [][RegistrationStep]_vars

\* A second registration of the package aws at the version it is already
\* registered at failed, and the registry holds the first one only.
C21_Witness ==
    /\ fatal
    /\ DOMAIN registry.packages = {"aws"}
    /\ Len(registry.packages["aws"]) = 1
    /\ registry.modules = << >>

\* The entries under the key that was looked up, and those among them that
\* the version asked for admits: all for the wildcard, else those of the
\* same major version.
LoadedFrom == {VersionsOf(registry[loaded.vm], loaded.key)[i] :
                  i \in DOMAIN VersionsOf(registry[loaded.vm], loaded.key)}
Candidates == {e \in LoadedFrom :
                  loaded.version = nullVersion \/ e.version[1] = loaded.version[1]}
ExactMatch == \E e \in LoadedFrom : e.version = loaded.version

\* C22: Load(key, version) for a version that is not the wildcard returns
\* only an entry registered under key with the same major version, the one
\* of exactly that version when there is one; for the wildcard it returns an
\* entry whenever key has one; it reports not-found exactly when there is no
\* candidate.  With 1.2.0 and 2.0.0 registered, 1.5.0 finds 1.2.0.
C22_LoadCandidates ==
    loaded.st = "returned" =>
        /\ loaded.ok <=> Candidates # {}
        /\ loaded.ok => loaded.v \in Candidates
        /\ ~loaded.ok => loaded.v = NotFound.v
        /\ ExactMatch => loaded.v.version = loaded.version
        /\ (loaded.version = nullVersion /\ LoadedFrom # {}) => loaded.ok
        /\ (/\ {e.version : e \in LoadedFrom} = {<<1, 2, 0>>, <<2, 0, 0>>}
            /\ loaded.version = <<1, 5, 0>>)
           => loaded.ok /\ loaded.v.version = <<1, 2, 0>>

\* With 1.2.0 and 2.0.0 registered for the module key aws:s3, the lookup at
\* 1.5.0 returned the 1.2.0 entry.
C22_Witness ==
    /\ loaded.st = "returned"
    /\ loaded.vm = "modules" /\ loaded.key = "aws:s3"
    /\ {e.version : e \in LoadedFrom} = {<<1, 2, 0>>, <<2, 0, 0>>}
    /\ loaded.version = <<1, 5, 0>>
    /\ loaded.ok /\ loaded.v.version = <<1, 2, 0>>

\* a is a lower version than b: major, then minor, then patch.
Lower(a, b) ==
    \/ a[1] < b[1]
    \/ a[1] = b[1] /\ a[2] < b[2]
    \/ a[1] = b[1] /\ a[2] = b[2] /\ a[3] < b[3]

\* C28: without an exact match Load returns the candidate of the greatest
\* version, in whatever order the entries were stored, so the answer depends
\* on the set of entries only.
C28_GreatestCandidate ==
    (loaded.st = "returned" /\ loaded.ok /\ ~ExactMatch) =>
        /\ loaded.v \in Candidates
        /\ \A e \in Candidates : ~Lower(loaded.v.version, e.version)
        /\ loaded.v = CHOOSE e \in Candidates : \A c \in Candidates : ~Lower(e.version, c.version)

\* 1.0.0, 1.2.0 and 1.1.0 were stored in this order under the package aws,
\* and the lookup at 1.5.0 returned the 1.2.0 entry, stored second.
C28_Witness ==
    /\ loaded.st = "returned"
    /\ loaded.vm = "packages" /\ loaded.key = "aws"
    /\ loaded.version = <<1, 5, 0>>
    /\ Len(VersionsOf(registry.packages, "aws")) = 3
    /\ registry.packages["aws"][1].version = <<1, 0, 0>>
    /\ registry.packages["aws"][2].version = <<1, 2, 0>>
    /\ registry.packages["aws"][3].version = <<1, 1, 0>>
    /\ loaded.v.version = <<1, 2, 0>>

(***************************************************************************)
(* Properties of the registry under concurrent use.                        *)
(***************************************************************************)
InStore(g) == procs[g].op = "Store" /\ procs[g].pc \in {"check", "append", "unlock"}
InLoad(g) == procs[g].op = "Load" /\ procs[g].pc \in {"range", "scan", "unlock"}
Stored(g) ==
    /\ procs[g].op = "Store"
    /\ procs[g].err = NoErr
    /\ procs[g].pc = "done"
Refused(g) ==
    /\ procs[g].op = "Store"
    /\ procs[g].err # NoErr
    /\ procs[g].pc = "done"
Finished == \A g \in Procs : procs[g].pc = "done"

\* The body of a Store excludes every other body.
StoreExcludes ==
    \A g, h \in Procs : (g # h /\ InStore(g)) => ~InStore(h) /\ ~InLoad(h)

\* A Load sees the entries of the Stores that returned without an error, no
\* others, and its answer is the one these entries give.
LoadSeesCompletedStores ==
    \A g \in Procs : InLoad(g) =>
        /\ \A key \in DOMAIN registry.packages :
              {registry.packages[key][i] : i \in DOMAIN registry.packages[key]}
                  = {procs[h].value : h \in {h \in Procs : Stored(h) /\ procs[h].key = key}}
        /\ procs[g].pc \in {"scan", "unlock"} =>
              procs[g].vs = VersionsOf(registry.packages, procs[g].key)
        /\ procs[g].pc = "unlock" =>
              procs[g].res = Load(registry.packages, procs[g].key, procs[g].version)

\* Of the Stores of one key and version that have returned, one succeeded.
OneStoreWins ==
    \A g \in Procs : Refused(g) =>
        \E h \in Procs : /\ procs[h].op = "Store"
                         /\ procs[h].key = procs[g].key
                         /\ procs[h].value.version = procs[g].value.version
                         /\ procs[h].err = NoErr
                         /\ procs[h].pc \in {"unlock", "done"}
AtMostOneStoreWins ==
    \A g, h \in Procs :
        (/\ g # h
         /\ procs[g].op = "Store" /\ procs[h].op = "Store"
         /\ procs[g].key = procs[h].key
         /\ procs[g].value.version = procs[h].value.version
         /\ procs[g].pc = "done" /\ procs[h].pc = "done")
        => ~(procs[g].err = NoErr /\ procs[h].err = NoErr)

\* C29: Store holds the writer lock and Load the reader lock for its whole
\* body: no Load and no other Store runs while a Store is in its body, a
\* Load answers from the entries of the Stores that completed before it, of
\* two racing Stores of one key and version exactly one succeeds, and no key
\* holds two entries of equal version.
C29_OperationsAtomic ==
    /\ StoreExcludes
    /\ LoadSeesCompletedStores
    /\ OneStoreWins
    /\ AtMostOneStoreWins
    /\ DistinctVersions(registry.packages)

\* Two goroutines stored 1.0.0 under one key, one of them was refused, and
\* the Load of the third found the one entry.
C29_Witness ==
    /\ Finished
    /\ \E g, h \in Procs :
          /\ Stored(g) /\ Refused(h)
          /\ procs[g].value = procs[h].value
    /\ \E g \in Procs : procs[g].op = "Load" /\ procs[g].res.ok
    /\ Len(VersionsOf(registry.packages, "aws")) = 1

(***************************************************************************)
(* Properties of unmarshalPropertyMap.                                     *)
(***************************************************************************)
PropertyMapUnmarshaled ==
    /\ unmarshaled.st = "returned"
    /\ unmarshaled.op = "unmarshalPropertyMap"
    /\ wire.k = "object"

\* The dependency-only resources of a list of URNs.
DependencyResources(urns) == [i \in DOMAIN urns |-> newDependencyResource(urns[i])]

\* The Input that a wire value becomes, when it is an Output.
InnerFuture(w) == unmarshalInput(registry, w.element).v
FutureTyped(w) ==
    /\ unmarshalInput(registry, w.element).err = NoErr
    /\ InnerFuture(w).k = "output"

\* C27: a known wire Output whose unmarshaled element is an Output becomes
\* one Output that holds the value of the inner one: known iff the inner one
\* is, secret iff the wire Output or the inner one is, with the wire
\* dependencies as dependency-only resources followed by the dependencies of
\* the inner one.  An unknown wire Output becomes an unknown Output with the
\* wire secret flag and dependencies, whatever its element is.
C27_OutputCollapsed ==
    PropertyMapUnmarshaled =>
        \A key \in DOMAIN wire.obj :
            LET w == wire.obj[key]
                o == MapValue(unmarshaled.v, key)
            IN  /\ (w.k = "output" /\ w.known /\ FutureTyped(w) /\ unmarshaled.err = NoErr) =>
                      /\ o.k = "output"
                      /\ o.res.v.k # "output"
                      /\ o.res.v = InnerFuture(w).res.v
                      /\ o.res.known = InnerFuture(w).res.known
                      /\ o.res.secret = (w.secret \/ InnerFuture(w).res.secret)
                      /\ o.res.deps = DependencyResources(w.dependencies)
                                          \o InnerFuture(w).res.deps
                /\ (w.k = "output" /\ ~w.known /\ DOMAIN wire.obj = {key}) =>
                      /\ unmarshaled.err = NoErr
                      /\ o.k = "output"
                      /\ o.res = Awaited(GoNil("interface"), FALSE, w.secret,
                                         DependencyResources(w.dependencies))

\* A known wire Output of urn:X and urn:R, not secret, whose element is an
\* unknown secret Output of urn:R, became one unknown secret Output of the
\* three dependencies.
C27_Witness ==
    /\ PropertyMapUnmarshaled
    /\ unmarshaled.err = NoErr
    /\ wire.obj = [a |-> NewOutputProperty(NewOutputProperty(NullProperty, FALSE, TRUE,
                                                             <<"urn:R">>),
                                           TRUE, FALSE, <<"urn:X", "urn:R">>)]
    /\ MapValue(unmarshaled.v, "a").res
           = Awaited(GoNil("interface"), FALSE, TRUE, <<"X", "R", "R">>)

(***************************************************************************)
(* Round trips.  What a value means: its plain value (Secret and Output    *)
(* wrappers removed, Null entries of objects left out), whether all of it  *)
(* is known, whether any of it is secret, and the URNs it depends on.  An  *)
(* unknown Output means nothing of its element.                            *)
(***************************************************************************)
Meaning(val, known, secret, deps) ==
    [val |-> val, known |-> known, secret |-> secret, deps |-> deps]
PlainNull == [k |-> "null"]
MeaningOfAll(k, ms) ==
    Meaning([k |-> k, of |-> [x \in {y \in DOMAIN ms : ms[y].val # PlainNull \/ k = "array"}
                                  |-> ms[x].val]],
            \A x \in DOMAIN ms : ms[x].known,
            \E x \in DOMAIN ms : ms[x].secret,
            UNION {ms[x].deps : x \in DOMAIN ms})
Unknown(m) == IF m.known THEN m ELSE [m EXCEPT !.val = [k |-> "unknown"]]

RECURSIVE WireMeaning(_)
WireMeaning(pv) ==
    CASE pv.k = "null" -> Meaning(PlainNull, TRUE, FALSE, {})
      [] pv.k = "computed" -> Meaning(PlainNull, FALSE, FALSE, {})
      [] pv.k = "string" -> Meaning([k |-> "string", s |-> pv.s], TRUE, FALSE, {})
      [] pv.k = "asset" -> Meaning([k |-> "asset"], TRUE, FALSE, {})
      [] pv.k = "archive" -> Meaning([k |-> "archive"], TRUE, FALSE, {})
      [] pv.k = "resource" ->
           Meaning([k |-> "resource", urn |-> pv.urn, id |-> pv.id], TRUE, FALSE, {})
      [] pv.k = "array" ->
           MeaningOfAll("array", [i \in DOMAIN pv.elems |-> WireMeaning(pv.elems[i])])
      [] pv.k = "object" ->
           MeaningOfAll("object", [key \in DOMAIN pv.obj |-> WireMeaning(pv.obj[key])])
      [] pv.k = "secret" -> [WireMeaning(pv.element) EXCEPT !.secret = TRUE]
      [] pv.k = "output" ->
           IF ~pv.known THEN Meaning(PlainNull, FALSE, pv.secret, Range(pv.dependencies))
           ELSE LET m == WireMeaning(pv.element)
                IN  Meaning(m.val, m.known, pv.secret \/ m.secret,
                            Range(pv.dependencies) \cup m.deps)

RECURSIVE GoMeaning(_, _)
GoMeaning(t, v) ==
    CASE v.k = "nil" -> Meaning(PlainNull, TRUE, FALSE, {})
      [] v.k = "string" -> Meaning([k |-> "string", s |-> v.s], TRUE, FALSE, {})
      [] v.k = "asset" -> Meaning([k |-> "asset"], TRUE, FALSE, {})
      [] v.k = "archive" -> Meaning([k |-> "archive"], TRUE, FALSE, {})
      [] v.k = "resource" ->
           Meaning([k |-> "resource", urn |-> awaitURN(t, v.r).urn,
                    id |-> IF t.kind[v.r] = "Custom" THEN awaitID(t, v.r).id ELSE ""],
                   TRUE, FALSE, {})
      [] v.k = "ptr" -> GoMeaning(t, v.v)
      [] v.k = "slice" ->
           IF v.isNil THEN Meaning(PlainNull, TRUE, FALSE, {})
           ELSE MeaningOfAll("array", [i \in DOMAIN v.elems |-> GoMeaning(t, v.elems[i])])
      [] v.k = "map" ->
           IF v.isNil THEN Meaning(PlainNull, TRUE, FALSE, {})
           ELSE MeaningOfAll("object", [key \in MapKeys(v) |-> GoMeaning(t, MapValue(v, key))])
      [] v.k = "struct" ->
           MeaningOfAll("object",
                        [tag \in {f[1] : f \in PropertiesOf(v)} |->
                            GoMeaning(t, (CHOOSE f \in PropertiesOf(v) : f[1] = tag)[2])])
      [] v.k = "output" ->
           LET urns == DOMAIN expandDependencies(t, v.res.deps).deps
           IN  IF ~v.res.known THEN Meaning(PlainNull, FALSE, v.res.secret, urns)
               ELSE LET m == GoMeaning(t, v.res.v)
                    IN  Meaning(m.val, m.known, v.res.secret \/ m.secret, urns \cup m.deps)
      [] OTHER -> Meaning([k |-> v.k], TRUE, FALSE, {})

\* A property that is absent means what Null means.
PropertyOf(pmap, key) == IF key \in DOMAIN pmap THEN pmap[key] ELSE NullProperty
EntryOf(m, key) == IF key \in MapKeys(m) THEN MapValue(m, key) ELSE GoNil("input")

\* marshalInputs(unmarshalPropertyMap(wire)) returned marshaled.pmap.
MarshaledAfterUnmarshal ==
    /\ tree = DependencyTree
    /\ PropertyMapUnmarshaled
    /\ unmarshaled.err = NoErr
    /\ input = unmarshaled.v
    /\ MarshalInputsReturned
    /\ marshaled.err = NoErr

\* unmarshalPropertyMap(marshalInputs(input)) returned unmarshaled.v.
UnmarshaledAfterMarshal ==
    /\ tree \in MarshalTrees
    /\ MarshalInputsReturned
    /\ marshaled.err = NoErr
    /\ PropertyMapUnmarshaled
    /\ unmarshaled.err = NoErr
    /\ wire.obj = marshaled.pmap

\* C23: both round trips preserve, for every property, the value, the known
\* flag, the secret flag and the set of dependency URNs.
C23_RoundTripPreserves ==
    /\ MarshaledAfterUnmarshal =>
          /\ DOMAIN marshaled.pmap \subseteq DOMAIN wire.obj
          /\ \A key \in DOMAIN wire.obj :
                Unknown(WireMeaning(PropertyOf(marshaled.pmap, key)))
                    = Unknown(WireMeaning(wire.obj[key]))
    /\ UnmarshaledAfterMarshal =>
          /\ \A f \in PropertiesOf(input) : f[1] \in MapKeys(unmarshaled.v) \/ IsNull(PropertyOf(marshaled.pmap, f[1]))
          /\ \A f \in PropertiesOf(input) :
                Unknown(GoMeaning(DependencyTree, EntryOf(unmarshaled.v, f[1])))
                    = Unknown(GoMeaning(tree, f[2]))

====
